---- MODULE Spec2Model ----
(***************************************************************************)
(* Model of the copy / mirror transfer engine of the object-storage        *)
(* client: cmd/cp-main.go (cp with and without a resumable session) and    *)
(* cmd/mirror-main.go (batch mirror, watch mode, multi-master mode).       *)
(***************************************************************************)
EXTENDS Integers, Sequences, FiniteSets, Bags, TLC

(***************************************************************************)
(* Bounds of the model.                                                    *)
(***************************************************************************)
MaxIntents == 3
NumWorkers == 2
QueueCap == 1
MaxRuns == 2
MaxEvents == 1
MaxTransfers == 3
MaxRemoveErrs == 3

VARIABLES
    \* ---- cp: inputs of the invocation
    useSession,     \* ctx.Bool("continue"): mainCopy runs with a session
    cpStream,       \* what prepareCopyURLs emits, in scan order
    \* ---- cp: the session on disk (survives the process)
    sessOnDisk,     \* isSessionExists(sessionID)
    sessLog,        \* the session data file, one line per intent
    hdr,            \* session.Header as saved
    \* ---- cp: one run of mainCopy
    runNo,          \* number of the current run
    cpPc,           \* position of the main goroutine
    cpExit,         \* how the last run that ended came to its end
    exitCode,       \* process exit status of that run
    scanPos,        \* next item of cpStream the scan reads
    totals,         \* totalObjects / totalBytes of doCopySession
    feedSt,         \* goroutine that fills cpURLsCh (log reader or scanner)
    readPos,        \* next line of the log the reader reads
    cpURLsCh,       \* chan URLs (buffered)
    cpURLsClosed,
    lastURL,        \* isLastFactory: captured marker
    last,           \* isLastFactory: closure variable
    dispSt,         \* dispatcher goroutine
    dispTask,       \* the closure the dispatcher is about to queue
    queueCh,        \* work queue of the parallel manager
    queueClosed,
    workers,        \* the pool of the parallel manager
    statusClosed,   \* close(statusCh)
    quitClosed,     \* close(quitCh)
    trapped,        \* the interrupt was delivered to this run
    retErr,         \* retErr != nil
    \* ---- cp: history of the session, for the claims
    resumed,        \* this run replays a stored log (session.HasData())
    doneEarlier,    \* real copies whose success was recorded in earlier runs
    doneThisRun,    \* real copies whose success the aggregator recorded
    uploadedOK,     \* source URLs whose upload returned without error
    realThisRun,    \* source URLs handed to doCopy in this run
    fakeThisRun,    \* source URLs handed to doCopyFake in this run
    logAtExec,      \* the log as it was when execution began
    consumed,       \* results the aggregator received in this run
    errsSeen,       \* the error kinds of the results the aggregator received
    cpQueued,       \* number of closures the dispatcher has queued in this run
    isPreserve,     \* --preserve
    cpRead,         \* number of intents the dispatcher has read in this run
    \* ---- mirror: one mirrorJob
    mjF,            \* the flags and filters of newMirrorJob
    mjStream,       \* what prepareMirrorURLs emits (URLsCh)
    mjScanPos,      \* next item of mjStream that startMirror reads
    mjScanSt,       \* position of the startMirror goroutine
    mjScanItem,     \* the intent startMirror is handling
    mjStatus,       \* mj.status: object count and byte totals
    mjQueue,        \* mj.queueCh
    mjQueueClosed,
    mjWorkers,      \* the pool of mj.parallel
    mjStatusClosed, \* close(mj.statusCh)
    mjStopClosed,   \* close(mj.stopCh)
    mjEvents,       \* mj.watcher.Events(), pending
    mjDelivered,    \* number of events the watcher has produced
    mjWatchSt,      \* position of the watchMirror goroutine
    mjWatchItem,    \* the intent watchMirror is handling
    mjAggSt,        \* position of monitorMirrorStatus
    errDuringMirror,
    mjTarget,       \* the paths present on the target
    \* ---- mirror: history, for the claims
    mjCounted,      \* the intents added to the totals, in order
    mjUploads,      \* the intents handed to uploadSourceToTargetURL
    mjRemoves,      \* the intents handed to clnt.Remove
    mjResults,      \* the results monitorMirrorStatus has received, in order
    mjHandled,      \* the events watchMirror has received, in order
    mjStats,        \* number of targetClient.Stat calls of watchMirror
    mjWatchErr,     \* the kind of error watchMirror got from watcher.Errors()
    mjMsgs,         \* what monitorMirrorStatus has printed: error reports, rmMessages
    mjEnqueued,     \* the intents startMirror has sent on mj.queueCh
    \* ---- mirror: two multi-site jobs, one per source site
    msObjs,         \* the objects of each site
    msEvents,       \* watcher.Events() of the job of each site, pending
    msScan,         \* what is left of the batch scan of the job of each site
    msJobSt,        \* position of the job of each site
    msItem,         \* the intent the job of each site is handling
    msSent,         \* history: the intents each job handed to the upload
    msUserWrote,    \* the user has written UserPath on A
    \* ---- parseEnvURL
    envParts,       \* the pieces the environment URL is written from
    envURL,         \* the environment URL, as a string
    envPc,          \* position of the caller of parseEnvURL
    envRet,         \* what parseEnvURL returned
    envVerdict,     \* what TestParseURLEnv says about it
    \* ---- mirror: the batch scan of one source onto one target, run twice
    dfF,            \* the flags of the job
    dfSrc,          \* the source namespace: path -> size, age
    dfTgt,          \* the target namespace
    dfPc,           \* "start", "scanned" or "executed"
    dfRun,          \* 1 for the first run of the command, 2 for the second
    dfIntents,      \* the intents startMirror has queued in this run
    dfTotals,       \* mj.status at the end of the scan
    dfMirrored,     \* the paths the first run has copied
    \* ---- mirror: mainMirror and runMirror
    rmF,            \* multi-site mode, --watch, --fake, both URLs are namespace roots
    rmSrc,          \* the buckets of the source: bucket -> lock configuration
    rmTgt,          \* the buckets of the target
    rmDiffs,        \* what dirDifference yields in this call of runMirror
    rmPos,          \* the next difference of rmDiffs
    rmPc,           \* position of mainMirror and runMirror
    rmJob,          \* the channels of the mirrorJob of this call
    rmLog,          \* the calls of this runMirror on the target, in order
    rmRet,          \* what runMirror returned
    rmExit,         \* the exit status
    rmAborted,      \* history: a job of this process has closed its stopCh
    \* ---- mirror: one call of doRemove
    rvFake,         \* mj.isFake
    rvClientErr,    \* the error of newClient for the target
    rvErrorCh,      \* what clnt.Remove sends on its error channel
    rvPc,           \* "call" or "returned"
    rvRet,          \* the error of the result, and whether clnt.Remove was called
    \* ---- admin: concurrent calls of the client factory
    afConfig,       \* the configuration each caller passes
    afPc,           \* position of each caller
    afSum,          \* confSum of each caller
    afMutex,        \* the caller that holds the mutex, or 0
    clientCache,    \* confSum -> client
    afApi,          \* the client each caller gets
    afBuilt         \* history: the keys clients were built and stored for

cpVars == << useSession, cpStream, sessOnDisk, sessLog, hdr, runNo, cpPc, cpExit,
             exitCode, scanPos, totals, feedSt, readPos, cpURLsCh, cpURLsClosed,
             lastURL, last, dispSt, dispTask, queueCh, queueClosed, workers,
             statusClosed, quitClosed, trapped, retErr, resumed, doneEarlier,
             doneThisRun, uploadedOK, realThisRun, fakeThisRun, logAtExec,
             consumed, errsSeen, cpQueued, isPreserve, cpRead >>

mjVars == << mjF, mjStream, mjScanPos, mjScanSt, mjScanItem, mjStatus, mjQueue,
             mjQueueClosed, mjWorkers, mjStatusClosed, mjStopClosed, mjEvents,
             mjDelivered, mjWatchSt, mjWatchItem, mjAggSt, errDuringMirror,
             mjTarget, mjCounted, mjUploads, mjRemoves, mjResults, mjHandled,
             mjStats, mjWatchErr, mjMsgs, mjEnqueued >>

msVars == << msObjs, msEvents, msScan, msJobSt, msItem, msSent, msUserWrote >>

envVars == << envParts, envURL, envPc, envRet, envVerdict >>

dfVars == << dfF, dfSrc, dfTgt, dfPc, dfRun, dfIntents, dfTotals, dfMirrored >>

rmVars == << rmF, rmSrc, rmTgt, rmDiffs, rmPos, rmPc, rmJob, rmLog, rmRet, rmExit,
             rmAborted >>

rvVars == << rvFake, rvClientErr, rvErrorCh, rvPc, rvRet >>

afVars == << afConfig, afPc, afSum, afMutex, clientCache, afApi, afBuilt >>

vars == << cpVars, mjVars, msVars, envVars, dfVars, rmVars, rvVars, afVars >>

(***************************************************************************)
(* Data                                                                    *)
(***************************************************************************)
Workers == 1 .. NumWorkers

URLIds == 1 .. MaxIntents

\* "" as a source URL
NoURL == 0

\* Kinds of *probe.Error a result can carry; isErrIgnored tells them apart.
ErrKinds == {"none", "ignored", "fatal"}

\* URLs: a transfer intent (SourceContent.URL, SourceContent.Size, Error).
Intent(u, e) == [url |-> u, size |-> u, err |-> e]

ErrorIntent == Intent(NoURL, "fatal")

\* The scan order of prepareCopyURLs over an unchanged namespace: the objects
\* 1..MaxIntents, with one inaccessible sub-path at position k (none when k is 0).
RECURSIVE StreamFrom(_, _, _)
StreamFrom(i, k, pos) ==
    IF pos = k THEN << ErrorIntent >> \o StreamFrom(i, k, pos + 1)
    ELSE IF i > MaxIntents THEN << >>
    ELSE << Intent(i, "none") >> \o StreamFrom(i + 1, k, pos + 1)

prepareCopyURLs == { StreamFrom(1, k, 1) : k \in 0 .. MaxIntents + 1 }

\* json.Marshal(cpURLs) and json.Unmarshal of one line of the data file.
jsonMarshal(c) == << "URLs", c.url, c.size >>

jsonUnmarshal(l) == [url |-> l[2], size |-> l[3], err |-> "none"]

EmptyHeader == [TotalObjects |-> 0, TotalBytes |-> 0, LastCopied |-> NoURL]

\* sessionV8.HasData
HasData(h) == h.LastCopied # NoURL

\* isErrIgnored
isErrIgnored(e) == e = "ignored"

\* The closure isLastFactory(lastURL) returns, applied to sourceURL: the value
\* it returns and the value it leaves in the closure variable.
isCopiedValue(lURL, l, sourceURL) == IF lURL = NoURL THEN FALSE ELSE l

isCopiedLast(lURL, l, sourceURL) ==
    IF lURL = NoURL THEN l
    ELSE IF l /\ lURL = sourceURL THEN FALSE ELSE l

IdleWorker == [st |-> "idle", url |-> NoURL, size |-> 0, fake |-> FALSE, err |-> "none"]

NoTask == [url |-> NoURL, size |-> 0, fake |-> FALSE, err |-> "none"]

\* uploadSourceToTargetURL: the transfer ends with one of the error kinds.
uploadSourceToTargetURL(t, outcome) == [t EXCEPT !.err = outcome]

\* doCopy: an intent that carries an error is returned as it is.
doCopy(t, outcome) ==
    IF t.err # "none" THEN t ELSE uploadSourceToTargetURL(t, outcome)

\* doCopyFake
doCopyFake(t) == t

(***************************************************************************)
(* cp: state after construction                                            *)
(***************************************************************************)
CpVolatileInit ==
    /\ scanPos = 1
    /\ totals = [objects |-> 0, bytes |-> 0]
    /\ feedSt = "off"
    /\ readPos = 1
    /\ cpURLsCh = << >>
    /\ cpURLsClosed = FALSE
    /\ lastURL = NoURL
    /\ last = TRUE
    /\ dispSt = "off"
    /\ dispTask = NoTask
    /\ queueCh = << >>
    /\ queueClosed = FALSE
    /\ workers = [w \in Workers |-> IdleWorker]
    /\ statusClosed = FALSE
    /\ quitClosed = FALSE
    /\ trapped = FALSE
    /\ retErr = FALSE
    /\ realThisRun = {}
    /\ fakeThisRun = {}
    /\ doneThisRun = {}
    /\ logAtExec = << >>
    /\ consumed = 0
    /\ errsSeen = {}
    /\ cpQueued = 0
    /\ cpRead = 0

CpInitWith(preserve) ==
    /\ isPreserve = preserve
    /\ useSession \in BOOLEAN
    /\ cpStream \in prepareCopyURLs
    /\ sessOnDisk = FALSE
    /\ sessLog = << >>
    /\ hdr = EmptyHeader
    /\ runNo = 0
    /\ cpPc = "start"
    /\ cpExit = "none"
    /\ exitCode = 0
    /\ resumed = FALSE
    /\ doneEarlier = {}
    /\ uploadedOK = {}
    /\ CpVolatileInit

\* cp without --preserve.
CpInit == CpInitWith(FALSE)

(***************************************************************************)
(* cp: mainCopy and the start of doCopySession                             *)
(***************************************************************************)
\* session.NewDataWriter: a fresh data file for the scan.
NewDataWriter(log) == << >>

\* session.Delete
SessionDelete ==
    /\ sessOnDisk' = FALSE
    /\ sessLog' = << >>
    /\ hdr' = EmptyHeader

\* The goroutines and channels doCopySession creates are new in every run.
CpFreshRun ==
    /\ scanPos' = 1
    /\ readPos' = 1
    /\ cpURLsCh' = << >>
    /\ cpURLsClosed' = FALSE
    /\ dispTask' = NoTask
    /\ queueCh' = << >>
    /\ queueClosed' = FALSE
    /\ workers' = [w \in Workers |-> IdleWorker]
    /\ statusClosed' = FALSE
    /\ quitClosed' = FALSE
    /\ trapped' = FALSE
    /\ retErr' = FALSE
    /\ realThisRun' = {}
    /\ fakeThisRun' = {}
    /\ doneThisRun' = {}
    /\ consumed' = 0
    /\ errsSeen' = {}
    /\ cpQueued' = 0
    /\ cpRead' = 0

\* mainCopy up to the point where doCopySession scans or starts executing.
mainCopy ==
    /\ cpPc \in {"start", "done", "dead"}
    /\ runNo < MaxRuns
    /\ runNo' = runNo + 1
    /\ CpFreshRun
    /\ IF useSession
       THEN LET exists == sessOnDisk
                h == IF exists THEN hdr ELSE EmptyHeader
            IN  /\ sessOnDisk' = TRUE
                /\ hdr' = h
                /\ lastURL' = h.LastCopied
                /\ last' = TRUE
                /\ resumed' = HasData(h)
                /\ doneEarlier' = IF exists THEN doneEarlier \cup doneThisRun ELSE {}
                /\ uploadedOK' = IF exists THEN uploadedOK ELSE {}
                /\ IF ~HasData(h)
                   THEN /\ cpPc' = "scan"
                        /\ sessLog' = NewDataWriter(sessLog)
                        /\ totals' = [objects |-> 0, bytes |-> 0]
                        /\ feedSt' = "off"
                        /\ dispSt' = "off"
                        /\ logAtExec' = << >>
                   ELSE /\ cpPc' = "exec"
                        /\ sessLog' = sessLog
                        /\ totals' = [objects |-> h.TotalObjects, bytes |-> h.TotalBytes]
                        /\ feedSt' = "run"
                        /\ dispSt' = "select"
                        /\ logAtExec' = sessLog
       ELSE /\ cpPc' = "exec"
            /\ totals' = [objects |-> 0, bytes |-> 0]
            /\ feedSt' = "run"
            /\ dispSt' = "select"
            /\ lastURL' = NoURL
            /\ last' = TRUE
            /\ resumed' = FALSE
            /\ doneEarlier' = {}
            /\ uploadedOK' = {}
            /\ logAtExec' = << >>
            /\ UNCHANGED << sessOnDisk, sessLog, hdr >>
    /\ UNCHANGED << useSession, cpStream, cpExit, exitCode, isPreserve, mjVars, msVars,
                    envVars, dfVars, rmVars, rvVars, afVars >>

(***************************************************************************)
(* cp: doPrepareCopyURLs                                                   *)
(***************************************************************************)
\* The mutant of ScanDone: the scan loop is left after the first intent.
ScanDoneEarly(pos, stream) == pos > 1

\* URLsCh is drained: "Done with URL preparation".
ScanDone(pos, stream) == pos > Len(stream)

\* The mutant of ScanStep: an error-only intent is counted in the totals.
ScanStepCountsError ==
    /\ cpPc = "scan"
    /\ ~ScanDone(scanPos, cpStream)
    /\ scanPos <= Len(cpStream)
    /\ LET c == cpStream[scanPos]
       IN  IF c.err # "none"
           THEN /\ UNCHANGED sessLog
                /\ totals' = [objects |-> totals.objects + 1,
                              bytes |-> totals.bytes + c.size]
           ELSE /\ sessLog' = Append(sessLog, jsonMarshal(c))
                /\ totals' = [objects |-> totals.objects + 1,
                              bytes |-> totals.bytes + c.size]
    /\ scanPos' = scanPos + 1
    /\ UNCHANGED << useSession, cpStream, sessOnDisk, hdr, runNo, cpPc, cpExit, exitCode,
                    feedSt, readPos, cpURLsCh, cpURLsClosed, lastURL, last, dispSt,
                    dispTask, queueCh, queueClosed, workers, statusClosed, quitClosed,
                    trapped, retErr, resumed, doneEarlier, doneThisRun, uploadedOK,
                    realThisRun, fakeThisRun, logAtExec, consumed, errsSeen, cpQueued,
                    isPreserve, cpRead, mjVars, msVars, envVars, dfVars, rmVars, rvVars,
                    afVars >>

\* One turn of the scan loop: an error-only intent is reported and the loop
\* goes on, any other intent becomes a line of the data file.
ScanStep ==
    /\ cpPc = "scan"
    /\ ~ScanDone(scanPos, cpStream)
    /\ scanPos <= Len(cpStream)
    /\ LET c == cpStream[scanPos]
       IN  IF c.err # "none"
           THEN UNCHANGED << sessLog, totals >>
           ELSE /\ sessLog' = Append(sessLog, jsonMarshal(c))
                /\ totals' = [objects |-> totals.objects + 1,
                              bytes |-> totals.bytes + c.size]
    /\ scanPos' = scanPos + 1
    /\ UNCHANGED << useSession, cpStream, sessOnDisk, hdr, runNo, cpPc, cpExit, exitCode,
                    feedSt, readPos, cpURLsCh, cpURLsClosed, lastURL, last, dispSt,
                    dispTask, queueCh, queueClosed, workers, statusClosed, quitClosed,
                    trapped, retErr, resumed, doneEarlier, doneThisRun, uploadedOK,
                    realThisRun, fakeThisRun, logAtExec, consumed, errsSeen, cpQueued,
                    isPreserve, cpRead, mjVars, msVars, envVars, dfVars, rmVars, rvVars,
                    afVars >>

\* The scan is over: the header totals are saved, doPrepareCopyURLs returns and
\* doCopySession starts the log reader, the dispatcher and the aggregator loop.
ScanEnd ==
    /\ cpPc = "scan"
    /\ ScanDone(scanPos, cpStream)
    /\ hdr' = [hdr EXCEPT !.TotalBytes = totals.bytes, !.TotalObjects = totals.objects]
    /\ cpPc' = "exec"
    /\ feedSt' = "run"
    /\ dispSt' = "select"
    /\ logAtExec' = sessLog
    /\ UNCHANGED << useSession, cpStream, sessOnDisk, sessLog, runNo, cpExit, exitCode,
                    scanPos, totals, readPos, cpURLsCh, cpURLsClosed, lastURL, last,
                    dispTask, queueCh, queueClosed, workers, statusClosed, quitClosed,
                    trapped, retErr, resumed, doneEarlier, doneThisRun, uploadedOK,
                    realThisRun, fakeThisRun, consumed, errsSeen, cpQueued, isPreserve,
                    cpRead, mjVars, msVars, envVars, dfVars, rmVars, rvVars, afVars >>

\* The mutant of ScanTrap: the interrupted scan leaves the session on disk.
ScanTrapKeepsSession ==
    /\ cpPc = "scan"
    /\ trapped' = TRUE
    /\ cpPc' = "dead"
    /\ cpExit' = "trapScan"
    /\ exitCode' = 0
    /\ UNCHANGED << useSession, cpStream, sessOnDisk, sessLog, hdr, runNo, scanPos,
                    totals, feedSt, readPos, cpURLsCh, cpURLsClosed, lastURL, last,
                    dispSt, dispTask, queueCh, queueClosed, workers, statusClosed,
                    quitClosed, retErr, resumed, doneEarlier, doneThisRun, uploadedOK,
                    realThisRun, fakeThisRun, logAtExec, consumed, errsSeen, cpQueued,
                    isPreserve, cpRead, mjVars, msVars, envVars, dfVars, rmVars, rvVars,
                    afVars >>

\* The interrupt arrives during the scan: the partial session is dropped and the
\* process exits with os.Exit(0).
ScanTrap ==
    /\ cpPc = "scan"
    /\ trapped' = TRUE
    /\ SessionDelete
    /\ cpPc' = "dead"
    /\ cpExit' = "trapScan"
    /\ exitCode' = 0
    /\ UNCHANGED << useSession, cpStream, runNo, scanPos, totals, feedSt, readPos,
                    cpURLsCh, cpURLsClosed, lastURL, last, dispSt, dispTask, queueCh,
                    queueClosed, workers, statusClosed, quitClosed, retErr, resumed,
                    doneEarlier, doneThisRun, uploadedOK, realThisRun, fakeThisRun,
                    logAtExec, consumed, errsSeen, cpQueued, isPreserve, cpRead, mjVars,
                    msVars, envVars, dfVars, rmVars, rvVars, afVars >>

(***************************************************************************)
(* cp: the goroutines that fill cpURLsCh                                   *)
(***************************************************************************)
\* With a session: the lines of the data file, in order.
ReaderStep ==
    /\ cpPc = "exec"
    /\ useSession
    /\ feedSt = "run"
    /\ IF readPos > Len(sessLog)
       THEN /\ cpURLsClosed' = TRUE
            /\ feedSt' = "done"
            /\ UNCHANGED << cpURLsCh, readPos >>
       ELSE /\ cpURLsCh' = Append(cpURLsCh, jsonUnmarshal(sessLog[readPos]))
            /\ readPos' = readPos + 1
            /\ UNCHANGED << cpURLsClosed, feedSt >>
    /\ UNCHANGED << useSession, cpStream, sessOnDisk, sessLog, hdr, runNo, cpPc, cpExit,
                    exitCode, scanPos, totals, lastURL, last, dispSt, dispTask, queueCh,
                    queueClosed, workers, statusClosed, quitClosed, trapped, retErr,
                    resumed, doneEarlier, doneThisRun, uploadedOK, realThisRun,
                    fakeThisRun, logAtExec, consumed, errsSeen, cpQueued, isPreserve,
                    cpRead, mjVars, msVars, envVars, dfVars, rmVars, rvVars, afVars >>

\* Without a session: the scan feeds the dispatcher directly. The break on an
\* error-only intent leaves the range loop, and the channel is closed.
ScannerStep ==
    /\ cpPc = "exec"
    /\ ~useSession
    /\ feedSt = "run"
    /\ IF scanPos > Len(cpStream)
       THEN /\ cpURLsClosed' = TRUE
            /\ feedSt' = "done"
            /\ UNCHANGED << cpURLsCh, scanPos >>
       ELSE IF cpStream[scanPos].err # "none"
       THEN /\ cpURLsClosed' = TRUE
            /\ feedSt' = "done"
            /\ scanPos' = scanPos + 1
            /\ UNCHANGED cpURLsCh
       ELSE /\ cpURLsCh' = Append(cpURLsCh, cpStream[scanPos])
            /\ scanPos' = scanPos + 1
            /\ UNCHANGED << cpURLsClosed, feedSt >>
    /\ UNCHANGED << useSession, cpStream, sessOnDisk, sessLog, hdr, runNo, cpPc, cpExit,
                    exitCode, totals, readPos, lastURL, last, dispSt, dispTask, queueCh,
                    queueClosed, workers, statusClosed, quitClosed, trapped, retErr,
                    resumed, doneEarlier, doneThisRun, uploadedOK, realThisRun,
                    fakeThisRun, logAtExec, consumed, errsSeen, cpQueued, isPreserve,
                    cpRead, mjVars, msVars, envVars, dfVars, rmVars, rvVars, afVars >>

(***************************************************************************)
(* cp: the dispatcher goroutine of doCopySession                           *)
(***************************************************************************)
\* The source objects whose file attributes getFileAttrMeta cannot read.
AttrUnreadable == {2}

\* getFileAttrMeta(cpURLs, encKeyDB) returns an error for this intent.
getFileAttrMetaFails(c) == c.url \in AttrUnreadable

\* case cpURLs, ok := <-cpURLsCh with ok: the closure to queue is chosen by
\* isCopied, which is nil without a session; under --preserve an intent whose
\* file attributes cannot be read is passed over by continue.
DispRecv ==
    /\ cpPc = "exec"
    /\ dispSt = "select"
    /\ cpURLsCh # << >>
    /\ cpURLsCh' = Tail(cpURLsCh)
    /\ cpRead' = cpRead + 1
    /\ LET c == Head(cpURLsCh)
           fake == useSession /\ isCopiedValue(lastURL, last, c.url)
       IN  IF isPreserve /\ getFileAttrMetaFails(c)
           THEN /\ dispTask' = dispTask
                /\ last' = last
                /\ dispSt' = "select"
           ELSE /\ dispTask' = [url |-> c.url, size |-> c.size, fake |-> fake,
                                err |-> c.err]
                /\ last' = IF useSession THEN isCopiedLast(lastURL, last, c.url) ELSE last
                /\ dispSt' = "send"
    /\ UNCHANGED << useSession, cpStream, sessOnDisk, sessLog, hdr, runNo, cpPc, cpExit,
                    exitCode, scanPos, totals, feedSt, readPos, cpURLsClosed, lastURL,
                    queueCh, queueClosed, workers, statusClosed, quitClosed, trapped,
                    retErr, resumed, doneEarlier, doneThisRun, uploadedOK, realThisRun,
                    fakeThisRun, logAtExec, consumed, errsSeen, cpQueued, isPreserve,
                    mjVars, msVars, envVars, dfVars, rmVars, rvVars, afVars >>

\* queueCh <- func() URLs {...}: blocks while the queue is full.
DispSend ==
    /\ cpPc = "exec"
    /\ dispSt = "send"
    /\ ~queueClosed
    /\ Len(queueCh) < QueueCap
    /\ queueCh' = Append(queueCh, dispTask)
    /\ cpQueued' = cpQueued + 1
    /\ dispTask' = NoTask
    /\ dispSt' = "select"
    /\ UNCHANGED << useSession, cpStream, sessOnDisk, sessLog, hdr, runNo, cpPc, cpExit,
                    exitCode, scanPos, totals, feedSt, readPos, cpURLsCh, cpURLsClosed,
                    lastURL, last, queueClosed, workers, statusClosed, quitClosed,
                    trapped, retErr, resumed, doneEarlier, doneThisRun, uploadedOK,
                    realThisRun, fakeThisRun, logAtExec, consumed, errsSeen, isPreserve,
                    cpRead, mjVars, msVars, envVars, dfVars, rmVars, rvVars, afVars >>

\* case cpURLs, ok := <-cpURLsCh with !ok: gracefulStop closes the queue.
DispClosed ==
    /\ cpPc = "exec"
    /\ dispSt = "select"
    /\ cpURLsCh = << >>
    /\ cpURLsClosed
    /\ queueClosed' = TRUE
    /\ dispSt' = "wait"
    /\ UNCHANGED << useSession, cpStream, sessOnDisk, sessLog, hdr, runNo, cpPc, cpExit,
                    exitCode, scanPos, totals, feedSt, readPos, cpURLsCh, cpURLsClosed,
                    lastURL, last, dispTask, queueCh, workers, statusClosed, quitClosed,
                    trapped, retErr, resumed, doneEarlier, doneThisRun, uploadedOK,
                    realThisRun, fakeThisRun, logAtExec, consumed, errsSeen, cpQueued,
                    isPreserve, cpRead, mjVars, msVars, envVars, dfVars, rmVars, rvVars,
                    afVars >>

\* case <-quitCh: gracefulStop closes the queue.
DispQuit ==
    /\ cpPc = "exec"
    /\ dispSt = "select"
    /\ quitClosed
    /\ queueClosed' = TRUE
    /\ dispSt' = "wait"
    /\ UNCHANGED << useSession, cpStream, sessOnDisk, sessLog, hdr, runNo, cpPc, cpExit,
                    exitCode, scanPos, totals, feedSt, readPos, cpURLsCh, cpURLsClosed,
                    lastURL, last, dispTask, queueCh, workers, statusClosed, quitClosed,
                    trapped, retErr, resumed, doneEarlier, doneThisRun, uploadedOK,
                    realThisRun, fakeThisRun, logAtExec, consumed, errsSeen, cpQueued,
                    isPreserve, cpRead, mjVars, msVars, envVars, dfVars, rmVars, rvVars,
                    afVars >>

\* gracefulStop: parallel.wait() has returned, close(statusCh).
DispWait ==
    /\ cpPc = "exec"
    /\ dispSt = "wait"
    /\ \A w \in Workers : workers[w].st = "exit"
    /\ statusClosed' = TRUE
    /\ dispSt' = "done"
    /\ UNCHANGED << useSession, cpStream, sessOnDisk, sessLog, hdr, runNo, cpPc, cpExit,
                    exitCode, scanPos, totals, feedSt, readPos, cpURLsCh, cpURLsClosed,
                    lastURL, last, dispTask, queueCh, queueClosed, workers, quitClosed,
                    trapped, retErr, resumed, doneEarlier, doneThisRun, uploadedOK,
                    realThisRun, fakeThisRun, logAtExec, consumed, errsSeen, cpQueued,
                    isPreserve, cpRead, mjVars, msVars, envVars, dfVars, rmVars, rvVars,
                    afVars >>

(***************************************************************************)
(* cp: the workers of the parallel manager                                 *)
(***************************************************************************)
\* fn, ok := <-p.queueCh with ok
CpWorkerTake(w) ==
    /\ cpPc = "exec"
    /\ workers[w].st = "idle"
    /\ queueCh # << >>
    /\ LET t == Head(queueCh)
       IN  workers' = [workers EXCEPT ![w] =
                [st |-> "run", url |-> t.url, size |-> t.size, fake |-> t.fake,
                 err |-> t.err]]
    /\ queueCh' = Tail(queueCh)
    /\ UNCHANGED << useSession, cpStream, sessOnDisk, sessLog, hdr, runNo, cpPc, cpExit,
                    exitCode, scanPos, totals, feedSt, readPos, cpURLsCh, cpURLsClosed,
                    lastURL, last, dispSt, dispTask, queueClosed, statusClosed,
                    quitClosed, trapped, retErr, resumed, doneEarlier, doneThisRun,
                    uploadedOK, realThisRun, fakeThisRun, logAtExec, consumed, errsSeen,
                    cpQueued, isPreserve, cpRead, mjVars, msVars, envVars, dfVars, rmVars,
                    rvVars, afVars >>

\* fn, ok := <-p.queueCh with !ok: the worker leaves.
CpWorkerExit(w) ==
    /\ cpPc = "exec"
    /\ workers[w].st = "idle"
    /\ queueCh = << >>
    /\ queueClosed
    /\ workers' = [workers EXCEPT ![w].st = "exit"]
    /\ UNCHANGED << useSession, cpStream, sessOnDisk, sessLog, hdr, runNo, cpPc, cpExit,
                    exitCode, scanPos, totals, feedSt, readPos, cpURLsCh, cpURLsClosed,
                    lastURL, last, dispSt, dispTask, queueCh, queueClosed, statusClosed,
                    quitClosed, trapped, retErr, resumed, doneEarlier, doneThisRun,
                    uploadedOK, realThisRun, fakeThisRun, logAtExec, consumed, errsSeen,
                    cpQueued, isPreserve, cpRead, mjVars, msVars, envVars, dfVars, rmVars,
                    rvVars, afVars >>

\* fn(): doCopyFake or doCopy, whichever the dispatcher queued.
CpWorkerRun(w) ==
    /\ cpPc = "exec"
    /\ workers[w].st = "run"
    /\ \E outcome \in ErrKinds :
         LET t == [url |-> workers[w].url, size |-> workers[w].size,
                   fake |-> workers[w].fake, err |-> workers[w].err]
             r == IF t.fake THEN doCopyFake(t) ELSE doCopy(t, outcome)
         IN  /\ workers' = [workers EXCEPT ![w].st = "send", ![w].err = r.err]
             /\ realThisRun' = IF t.fake THEN realThisRun ELSE realThisRun \cup {t.url}
             /\ fakeThisRun' = IF t.fake THEN fakeThisRun \cup {t.url} ELSE fakeThisRun
             /\ uploadedOK' = IF ~t.fake /\ t.err = "none" /\ r.err = "none"
                              THEN uploadedOK \cup {t.url} ELSE uploadedOK
    /\ UNCHANGED << useSession, cpStream, sessOnDisk, sessLog, hdr, runNo, cpPc, cpExit,
                    exitCode, scanPos, totals, feedSt, readPos, cpURLsCh, cpURLsClosed,
                    lastURL, last, dispSt, dispTask, queueCh, queueClosed, statusClosed,
                    quitClosed, trapped, retErr, resumed, doneEarlier, doneThisRun,
                    logAtExec, consumed, errsSeen, cpQueued, isPreserve, cpRead, mjVars,
                    msVars, envVars, dfVars, rmVars, rvVars, afVars >>

(***************************************************************************)
(* cp: the aggregator loop of doCopySession, and the return of mainCopy    *)
(***************************************************************************)
\* session.CloseAndDie and session.copyCloseAndDie(true): the session is saved
\* and the process ends with a fatal message.
CloseAndDie(how) ==
    /\ UNCHANGED << sessOnDisk, sessLog >>
    /\ cpPc' = "dead"
    /\ cpExit' = how
    /\ exitCode' = 1

\* case <-trapCh
AggTrap ==
    /\ cpPc = "exec"
    /\ ~trapped
    /\ trapped' = TRUE
    /\ quitClosed' = TRUE
    /\ IF useSession
       THEN CloseAndDie("trapExec")
       ELSE UNCHANGED << cpPc, cpExit, exitCode, sessOnDisk, sessLog >>
    /\ UNCHANGED << useSession, cpStream, hdr, runNo, scanPos, totals, feedSt, readPos,
                    cpURLsCh, cpURLsClosed, lastURL, last, dispSt, dispTask, queueCh,
                    queueClosed, workers, statusClosed, retErr, resumed, doneEarlier,
                    doneThisRun, uploadedOK, realThisRun, fakeThisRun, logAtExec,
                    consumed, errsSeen, cpQueued, isPreserve, cpRead, mjVars, msVars,
                    envVars, dfVars, rmVars, rvVars, afVars >>

\* case cpURLs, ok := <-statusCh with ok: worker w hands over its result.
AggRecv(w) ==
    /\ cpPc = "exec"
    /\ workers[w].st = "send"
    /\ LET r == workers[w]
       IN  /\ workers' = [workers EXCEPT ![w] = IdleWorker]
           /\ consumed' = consumed + 1
           /\ errsSeen' = IF r.err = "none" THEN errsSeen ELSE errsSeen \cup {r.err}
           /\ IF r.err = "none"
              THEN /\ hdr' = IF useSession THEN [hdr EXCEPT !.LastCopied = r.url] ELSE hdr
                   /\ doneThisRun' = IF r.fake THEN doneThisRun ELSE doneThisRun \cup {r.url}
                   /\ UNCHANGED << retErr, cpPc, cpExit, exitCode, sessOnDisk, sessLog >>
              ELSE /\ retErr' = TRUE
                   /\ UNCHANGED << hdr, doneThisRun >>
                   /\ IF isErrIgnored(r.err) \/ ~useSession
                      THEN UNCHANGED << cpPc, cpExit, exitCode, sessOnDisk, sessLog >>
                      ELSE CloseAndDie("fatal")
    /\ UNCHANGED << useSession, cpStream, runNo, scanPos, totals, feedSt, readPos,
                    cpURLsCh, cpURLsClosed, lastURL, last, dispSt, dispTask, queueCh,
                    queueClosed, statusClosed, quitClosed, trapped, resumed, doneEarlier,
                    uploadedOK, realThisRun, fakeThisRun, logAtExec, cpQueued, isPreserve,
                    cpRead, mjVars, msVars, envVars, dfVars, rmVars, rvVars, afVars >>

\* case cpURLs, ok := <-statusCh with !ok: doCopySession returns retErr.
AggClosed ==
    /\ cpPc = "exec"
    /\ statusClosed
    /\ cpPc' = "returned"
    /\ UNCHANGED << useSession, cpStream, sessOnDisk, sessLog, hdr, runNo, cpExit,
                    exitCode, scanPos, totals, feedSt, readPos, cpURLsCh, cpURLsClosed,
                    lastURL, last, dispSt, dispTask, queueCh, queueClosed, workers,
                    statusClosed, quitClosed, trapped, retErr, resumed, doneEarlier,
                    doneThisRun, uploadedOK, realThisRun, fakeThisRun, logAtExec,
                    consumed, errsSeen, cpQueued, isPreserve, cpRead, mjVars, msVars,
                    envVars, dfVars, rmVars, rvVars, afVars >>

\* The mutant of mainCopyReturn: the session is left behind on a clean return.
mainCopyReturnKeepsSession ==
    /\ cpPc = "returned"
    /\ cpPc' = "done"
    /\ cpExit' = "returned"
    /\ exitCode' = IF retErr THEN 1 ELSE 0
    /\ UNCHANGED << sessOnDisk, sessLog, hdr >>
    /\ UNCHANGED << useSession, cpStream, runNo, scanPos, totals, feedSt, readPos,
                    cpURLsCh, cpURLsClosed, lastURL, last, dispSt, dispTask, queueCh,
                    queueClosed, workers, statusClosed, quitClosed, trapped, retErr,
                    resumed, doneEarlier, doneThisRun, uploadedOK, realThisRun,
                    fakeThisRun, logAtExec, consumed, errsSeen, cpQueued, isPreserve,
                    cpRead, mjVars, msVars, envVars, dfVars, rmVars, rvVars, afVars >>

\* mainCopy after doCopySession has returned: the session is deleted.
mainCopyReturn ==
    /\ cpPc = "returned"
    /\ IF useSession THEN SessionDelete ELSE UNCHANGED << sessOnDisk, sessLog, hdr >>
    /\ cpPc' = "done"
    /\ cpExit' = "returned"
    /\ exitCode' = IF retErr THEN 1 ELSE 0
    /\ UNCHANGED << useSession, cpStream, runNo, scanPos, totals, feedSt, readPos,
                    cpURLsCh, cpURLsClosed, lastURL, last, dispSt, dispTask, queueCh,
                    queueClosed, workers, statusClosed, quitClosed, trapped, retErr,
                    resumed, doneEarlier, doneThisRun, uploadedOK, realThisRun,
                    fakeThisRun, logAtExec, consumed, errsSeen, cpQueued, isPreserve,
                    cpRead, mjVars, msVars, envVars, dfVars, rmVars, rvVars, afVars >>

CpNext ==
    \/ mainCopy
    \/ ScanStep
    \/ ScanEnd
    \/ ScanTrap
    \/ ReaderStep
    \/ ScannerStep
    \/ DispRecv
    \/ DispSend
    \/ DispClosed
    \/ DispQuit
    \/ DispWait
    \/ \E w \in Workers : CpWorkerTake(w)
    \/ \E w \in Workers : CpWorkerExit(w)
    \/ \E w \in Workers : CpWorkerRun(w)
    \/ AggTrap
    \/ \E w \in Workers : AggRecv(w)
    \/ AggClosed
    \/ mainCopyReturn

(***************************************************************************)
(* mirror: data                                                            *)
(***************************************************************************)
\* The source and the target namespace of the job: path -> size, age. Paths 1
\* and 2 exist only at the source, path 3 is the same on both sides, path 4
\* exists only at the target.
SourceObjects == (1 :> [size |-> 1, age |-> 0]) @@ (2 :> [size |-> 2, age |-> 2])
                 @@ (3 :> [size |-> 1, age |-> 2])

TargetObjects == (3 :> [size |-> 1, age |-> 2]) @@ (4 :> [size |-> 1, age |-> 2])

\* URLs of a mirror job. kind "copy": SourceContent and TargetContent set;
\* kind "remove": SourceContent nil; kind "error": an error-only intent.
\* etag is SourceContent.ETag, umeta SourceContent.UserMetadata[multiMasterETagKey],
\* meta SourceContent.Metadata[multiMasterETagKey], tmeta the same key of
\* TargetContent.Metadata, cnt is TotalCount.
MirrorURLs(kind, path, size, age, org) ==
    [kind |-> kind, path |-> path, size |-> size, age |-> age, err |-> "none",
     etag |-> IF kind = "copy" /\ org = "batch" THEN "etag" ELSE "", umeta |-> "",
     meta |-> "", tmeta |-> "", retention |-> FALSE, cnt |-> 0, org |-> org]

MirrorErrorURLs(org) ==
    [MirrorURLs("error", NoURL, 0, 0, org) EXCEPT !.err = "fatal"]

NoMirrorURLs == MirrorURLs("none", NoURL, 0, 0, "none")

\* isOlder, isNewer: TRUE when the filter rejects an object of this age.
isOlder(age, ref) == ref # 0 /\ age < ref

isNewer(age, ref) == ref # 0 /\ age >= ref

\* matchExcludeOptions
matchExcludeOptions(excludeOptions, path) == path \in excludeOptions

\* The differ with a comparison of the sizes only.
RECURSIVE DiffOfSizeOnly(_, _, _, _)
DiffOfSizeOnly(f, src, tgt, paths) ==
    IF paths = {} THEN << >>
    ELSE LET p == CHOOSE x \in paths : \A y \in paths : x <= y
             rest == DiffOfSizeOnly(f, src, tgt, paths \ {p})
         IN  IF matchExcludeOptions(f.exclude, p) THEN rest
             ELSE IF p \in DOMAIN src /\ p \notin DOMAIN tgt
             THEN << MirrorURLs("copy", p, src[p].size, src[p].age, "batch") >> \o rest
             ELSE IF p \in DOMAIN src
             THEN IF src[p].size # tgt[p].size
                  THEN << MirrorURLs("copy", p, src[p].size, src[p].age, "batch") >>
                       \o rest
                  ELSE rest
             ELSE IF f.isRemove
                  THEN << MirrorURLs("remove", p, tgt[p].size, tgt[p].age, "batch") >>
                       \o rest
                  ELSE rest

\* The differ over the source src and the target tgt (path -> size, age), in
\* the order of the paths: a copy for a path only at the source or differing
\* in size or time, a removal for a path only at the target when removal is
\* enabled, nothing for an excluded path.
RECURSIVE DiffOf(_, _, _, _)
DiffOf(f, src, tgt, paths) ==
    IF paths = {} THEN << >>
    ELSE LET p == CHOOSE x \in paths : \A y \in paths : x <= y
             rest == DiffOf(f, src, tgt, paths \ {p})
         IN  IF matchExcludeOptions(f.exclude, p) THEN rest
             ELSE IF p \in DOMAIN src /\ p \notin DOMAIN tgt
             THEN << MirrorURLs("copy", p, src[p].size, src[p].age, "batch") >> \o rest
             ELSE IF p \in DOMAIN src
             THEN IF src[p] # tgt[p]
                  THEN << MirrorURLs("copy", p, src[p].size, src[p].age, "batch") >>
                       \o rest
                  ELSE rest
             ELSE IF f.isRemove
                  THEN << MirrorURLs("remove", p, tgt[p].size, tgt[p].age, "batch") >>
                       \o rest
                  ELSE rest

\* The differ over the namespaces of the job.
DiffFrom(f, paths) == DiffOf(f, SourceObjects, TargetObjects, paths)

\* s with x inserted before position k (at the end when k exceeds Len(s)).
InsertAt(s, k, x) ==
    IF k = 0 THEN s
    ELSE IF k > Len(s) THEN Append(s, x)
    ELSE SubSeq(s, 1, k - 1) \o << x >> \o SubSeq(s, k, Len(s))

\* prepareMirrorURLs: the intents of the differ, with one listing error at
\* position k (none when k is 0).
prepareMirrorURLs(f, k) ==
    InsertAt(DiffFrom(f, DOMAIN SourceObjects \cup DOMAIN TargetObjects), k,
             MirrorErrorURLs("batch"))

\* The flags of a job.
MirrorFlags ==
    [isFake : BOOLEAN, isRemove : BOOLEAN, isOverwrite : BOOLEAN, isWatch : BOOLEAN,
     multiMaster : BOOLEAN, olderThan : {0, 1}, newerThan : {0, 1},
     exclude : {{}, {1}}]

\* The flags of `mc mirror` with no option.
NoFlags ==
    [isFake |-> FALSE, isRemove |-> FALSE, isOverwrite |-> FALSE, isWatch |-> FALSE,
     multiMaster |-> FALSE, olderThan |-> 0, newerThan |-> 0, exclude |-> {}]

\* The command lines of the jobs that are run: plain, --remove, --fake,
\* --older-than, --newer-than, --exclude, --watch alone, with --older-than,
\* with --exclude --remove and with --overwrite, and the multi-site job with
\* --watch.
MirrorJobs ==
    { NoFlags,
      [NoFlags EXCEPT !.isRemove = TRUE],
      [NoFlags EXCEPT !.isFake = TRUE, !.isRemove = TRUE],
      [NoFlags EXCEPT !.olderThan = 1],
      [NoFlags EXCEPT !.newerThan = 1],
      [NoFlags EXCEPT !.exclude = {1}],
      [NoFlags EXCEPT !.isWatch = TRUE],
      [NoFlags EXCEPT !.isWatch = TRUE, !.olderThan = 1],
      [NoFlags EXCEPT !.isWatch = TRUE, !.exclude = {1}, !.isRemove = TRUE],
      [NoFlags EXCEPT !.isWatch = TRUE, !.isOverwrite = TRUE],
      [NoFlags EXCEPT !.isWatch = TRUE, !.multiMaster = TRUE] }

\* Jobs without --remove whose enumerator emits the removal intent of the
\* path that exists only at the target all the same: the enumerator is handed
\* isFake, isOverwrite and isRemove and decides on its own what it emits.
UnaskedRemovalJobs ==
    { NoFlags, [NoFlags EXCEPT !.multiMaster = TRUE] }

\* The events the watcher of the source can deliver. marker is
\* UserMetadata[multiMasterETagKey], ua the user agent of the request.
WatchEvent(type, path, size, marker, ua) ==
    [type |-> type, path |-> path, size |-> size, marker |-> marker, ua |-> ua,
     age |-> 0]

WatchEvents ==
    { WatchEvent("create", 1, 1, "", "user"),
      WatchEvent("create", 3, 1, "", "user"),
      WatchEvent("create", 1, 1, "etag", "mc-mirror"),
      WatchEvent("retention", 3, 0, "", "user"),
      WatchEvent("retention", 1, 0, "", "user"),
      WatchEvent("retention", 3, 1, "", "user"),
      WatchEvent("retention", 3, 0, "etag", "mc-mirror"),
      WatchEvent("remove", 3, 0, "", "user"),
      WatchEvent("remove", 1, 0, "", "user"),
      WatchEvent("remove", 3, 0, "", "mc-mirror") }

\* uaMirrorAppName
uaMirrorAppName == "mc-mirror"

(***************************************************************************)
(* mirror: doMirror, doRemove and the decision of watchMirror               *)
(***************************************************************************)
\* strings.Contains(event.UserAgent, uaMirrorAppName)
uaContains(ua, name) == ua = name

\* The URLs watchMirror builds for a create-class event.
watchCreateURLs(ev) ==
    [MirrorURLs("copy", ev.path, ev.size, ev.age, "watch") EXCEPT
        !.retention = (ev.type = "retention"), !.meta = ev.marker]

\* The URLs watchMirror builds for a remove event.
watchRemoveURLs(ev) == MirrorURLs("remove", ev.path, 0, ev.age, "watch")

\* watchMirror without the user-agent test of a remove event (lines 503-505).
watchDecisionNoAgentCheck(f, ev, exists) ==
    IF matchExcludeOptions(f.exclude, ev.path) THEN "skip"
    ELSE IF ev.type = "remove"
    THEN IF f.isRemove \/ f.multiMaster THEN "remove" ELSE "skip"
    ELSE IF watchCreateURLs(ev).meta # "" THEN "skip"
    ELSE "mirror"

\* watchMirror without the test of the replication marker (lines 441-446).
watchDecisionNoMarkerCheck(f, ev, exists) ==
    IF matchExcludeOptions(f.exclude, ev.path) THEN "skip"
    ELSE IF ev.type = "remove"
    THEN IF uaContains(ev.ua, uaMirrorAppName) THEN "skip"
         ELSE IF f.isRemove \/ f.multiMaster THEN "remove" ELSE "skip"
    ELSE "mirror"

\* watchMirror without the test of the exclude patterns (lines 417-419).
watchDecisionNoExclude(f, ev, exists) ==
    IF ev.type = "remove"
    THEN IF uaContains(ev.ua, uaMirrorAppName) THEN "skip"
         ELSE IF f.isRemove \/ f.multiMaster THEN "remove" ELSE "skip"
    ELSE IF watchCreateURLs(ev).meta # "" THEN "skip"
    ELSE "mirror"

\* watchMirror where a retention change of an empty object takes the path of
\* any other create event (lines 474-501).
watchDecisionNoEmptyRetention(f, ev, exists) ==
    IF matchExcludeOptions(f.exclude, ev.path) THEN "skip"
    ELSE IF ev.type = "remove"
    THEN IF uaContains(ev.ua, uaMirrorAppName) THEN "skip"
         ELSE IF f.isRemove \/ f.multiMaster THEN "remove" ELSE "skip"
    ELSE IF watchCreateURLs(ev).meta # "" THEN "skip"
    ELSE IF ~f.isOverwrite /\ ~f.multiMaster /\ exists /\ ev.type # "retention"
    THEN "skip"
    ELSE "mirror"

\* What watchMirror does with an event: "skip" (continue), "mirror" (count it
\* and call doMirror) or "remove" (call doRemove). exists is the outcome of
\* targetClient.Stat where the code calls it.
watchDecision(f, ev, exists) ==
    IF matchExcludeOptions(f.exclude, ev.path) THEN "skip"
    ELSE IF ev.type \in {"create", "retention"}
    THEN LET mirrorURL == watchCreateURLs(ev)
         IN  IF mirrorURL.meta # "" THEN "skip"
             ELSE IF mirrorURL.size = 0 /\ mirrorURL.retention
             THEN IF ~f.isOverwrite /\ exists THEN "skip"
                  ELSE LET shouldQueue == ~f.isOverwrite
                       IN  IF shouldQueue \/ f.isOverwrite \/ f.multiMaster
                           THEN "mirror" ELSE "skip"
             ELSE IF ~f.isOverwrite /\ ~f.multiMaster /\ exists /\ ~mirrorURL.retention
             THEN "skip"
             ELSE LET shouldQueue == ~f.isOverwrite /\ ~f.multiMaster
                  IN  IF shouldQueue \/ f.isOverwrite \/ f.multiMaster
                      THEN "mirror" ELSE "skip"
    ELSE IF ev.type = "remove"
    THEN IF uaContains(ev.ua, uaMirrorAppName) THEN "skip"
         ELSE IF f.isRemove \/ f.multiMaster THEN "remove" ELSE "skip"
    ELSE "skip"

\* watchMirror calls targetClient.Stat for this event: for a create-class event
\* that is neither excluded nor marked, when overwrite is off and, unless the
\* event is a retention change of an empty object, multi-site mode is off.
watchStats(f, ev) ==
    /\ ~matchExcludeOptions(f.exclude, ev.path)
    /\ ev.type \in {"create", "retention"}
    /\ watchCreateURLs(ev).meta = ""
    /\ IF ev.size = 0 /\ ev.type = "retention"
       THEN ~f.isOverwrite
       ELSE ~f.isOverwrite /\ ~f.multiMaster

\* The user agent of the requests of doRemove: clnt.AddUserAgent.
doRemoveUserAgent == uaMirrorAppName

\* doMirror calls uploadSourceToTargetURL for this intent.
doMirrorUploads(f, sURLs) == sURLs.err = "none" /\ ~f.isFake

\* The multiMasterETagKey entry doMirror puts in TargetContent.Metadata.
doMirrorMarker(f, sURLs) ==
    IF f.multiMaster /\ sURLs.umeta = "" THEN sURLs.etag ELSE ""

\* doMirror: the result for an intent, outcome being how the upload ends.
doMirror(f, sURLs, outcome) ==
    IF sURLs.err # "none" THEN sURLs
    ELSE IF f.isFake THEN [sURLs EXCEPT !.err = "none"]
    ELSE [sURLs EXCEPT !.tmeta = doMirrorMarker(f, sURLs), !.err = outcome]

\* doRemove calls clnt.Remove for this intent.
doRemoveCalls(f, sURLs) == ~f.isFake

\* What the error channel of clnt.Remove can yield for one object.
RemoveOutcomes == {"none", "permission", "fatal"}

\* doRemove: a permission error is ignored, any other error is returned.
doRemove(f, sURLs, outcome) ==
    IF f.isFake THEN [sURLs EXCEPT !.err = "none"]
    ELSE IF outcome \in {"none", "permission"} THEN [sURLs EXCEPT !.err = "none"]
    ELSE [sURLs EXCEPT !.err = outcome]

\* fn() of a queued closure, or the direct call of watchMirror: the result of
\* intent it when the transfer or removal ends with outcome.
MirrorRun(f, it, outcome) ==
    IF it.kind = "remove" THEN doRemove(f, it, outcome) ELSE doMirror(f, it, outcome)

\* The outcomes the operation on intent it can have.
MirrorOutcomes(it) == IF it.kind = "remove" THEN RemoveOutcomes ELSE ErrKinds

\* The effects of running intent it with result r on the target, on the
\* totals (doMirror in fake mode adds the size once more) and on the history.
MirrorEffects(f, it, r) ==
    LET up == it.kind # "remove" /\ doMirrorUploads(f, it)
        rm == it.kind = "remove" /\ doRemoveCalls(f, it)
    IN  /\ mjUploads' = IF up THEN mjUploads (+) SetToBag({it}) ELSE mjUploads
        /\ mjRemoves' = IF rm THEN mjRemoves (+) SetToBag({it}) ELSE mjRemoves
        /\ mjTarget' = IF up /\ r.err = "none" THEN mjTarget \cup {it.path}
                       ELSE IF rm /\ r.err = "none" THEN mjTarget \ {it.path}
                       ELSE mjTarget
        /\ mjStatus' = IF it.kind # "remove" /\ it.err = "none" /\ f.isFake
                       THEN [mjStatus EXCEPT !.bytes = @ + it.size]
                       ELSE mjStatus

(***************************************************************************)
(* mirror: state after newMirrorJob                                        *)
(***************************************************************************)
MjIdleWorker == [st |-> "idle", it |-> NoMirrorURLs]

\* The job of newMirrorJob with flags f, startMirror reading stream from
\* URLsCh.
MjInitStream(f, stream) ==
    /\ mjF = f
    /\ mjStream = stream
    /\ mjScanPos = 1
    /\ mjScanSt = "select"
    /\ mjScanItem = NoMirrorURLs
    /\ mjStatus = [counts |-> 0, bytes |-> 0]
    /\ mjQueue = << >>
    /\ mjQueueClosed = FALSE
    /\ mjWorkers = [w \in Workers |-> MjIdleWorker]
    /\ mjStatusClosed = FALSE
    /\ mjStopClosed = FALSE
    /\ mjEvents = << >>
    /\ mjDelivered = 0
    /\ mjWatchSt = IF f.isWatch THEN "select" ELSE "off"
    /\ mjWatchItem = NoMirrorURLs
    /\ mjAggSt = "loop"
    /\ errDuringMirror = FALSE
    /\ mjTarget = DOMAIN TargetObjects
    /\ mjCounted = EmptyBag
    /\ mjUploads = EmptyBag
    /\ mjRemoves = EmptyBag
    /\ mjResults = EmptyBag
    /\ mjHandled = << >>
    /\ mjStats = 0
    /\ mjWatchErr = "none"
    /\ mjMsgs = EmptyBag
    /\ mjEnqueued = {}

\* The job with flags f whose enumerator meets a listing error at position k.
MjInitWith(f, k) == MjInitStream(f, prepareMirrorURLs(f, k))

\* The mirror variables of a specification that runs no mirror job.
MjUnused ==
    /\ MjInitWith(NoFlags, 0)
    /\ mjScanSt = "select"

\* The mirror variables of a specification in which the mirror job is over.
MjOff ==
    /\ mjF = NoFlags
    /\ mjStream = << >>
    /\ mjScanPos = 1
    /\ mjScanSt = "done"
    /\ mjScanItem = NoMirrorURLs
    /\ mjStatus = [counts |-> 0, bytes |-> 0]
    /\ mjQueue = << >>
    /\ mjQueueClosed = TRUE
    /\ mjWorkers = [w \in Workers |-> [MjIdleWorker EXCEPT !.st = "exit"]]
    /\ mjStatusClosed = TRUE
    /\ mjStopClosed = FALSE
    /\ mjEvents = << >>
    /\ mjDelivered = 0
    /\ mjWatchSt = "off"
    /\ mjWatchItem = NoMirrorURLs
    /\ mjAggSt = "done"
    /\ errDuringMirror = FALSE
    /\ mjTarget = DOMAIN TargetObjects
    /\ mjCounted = EmptyBag
    /\ mjUploads = EmptyBag
    /\ mjRemoves = EmptyBag
    /\ mjResults = EmptyBag
    /\ mjHandled = << >>
    /\ mjStats = 0
    /\ mjWatchErr = "none"
    /\ mjMsgs = EmptyBag
    /\ mjEnqueued = {}

\* The cp variables of a specification that runs no cp.
CpUnused ==
    /\ isPreserve = FALSE
    /\ useSession = FALSE
    /\ cpStream = << >>
    /\ sessOnDisk = FALSE
    /\ sessLog = << >>
    /\ hdr = EmptyHeader
    /\ runNo = 0
    /\ cpPc = "unused"
    /\ cpExit = "none"
    /\ exitCode = 0
    /\ resumed = FALSE
    /\ doneEarlier = {}
    /\ uploadedOK = {}
    /\ CpVolatileInit

(***************************************************************************)
(* mirror: startMirror                                                     *)
(***************************************************************************)
\* startMirror skips a copy whose source time the older-than or the
\* newer-than filter rejects.
startFiltered(f, sURLs) ==
    /\ sURLs.kind = "copy"
    /\ \/ (f.olderThan # 0 /\ isOlder(sURLs.age, f.olderThan))
       \/ (f.newerThan # 0 /\ isNewer(sURLs.age, f.newerThan))

\* mj.status.Add(size), SetTotal and AddCounts(1) for an intent.
StatusAdd(st, it) ==
    [counts |-> st.counts + 1,
     bytes |-> st.bytes + (IF it.kind = "copy" THEN it.size ELSE 0)]

\* startMirror without lines 559-562: an error-only intent is counted and
\* queued like any other.
MjScanRecvCountsError ==
    /\ mjScanSt = "select"
    /\ mjScanPos <= Len(mjStream)
    /\ mjScanPos' = mjScanPos + 1
    /\ LET sURLs == mjStream[mjScanPos]
       IN  IF startFiltered(mjF, sURLs)
           THEN UNCHANGED << mjScanSt, mjScanItem, mjStatus, mjCounted >>
           ELSE /\ mjStatus' = StatusAdd(mjStatus, sURLs)
                /\ mjCounted' = mjCounted (+) SetToBag({sURLs})
                /\ mjScanSt' = "counted"
                /\ mjScanItem' = sURLs
    /\ UNCHANGED << cpVars, mjF, mjStream, mjQueue, mjQueueClosed, mjWorkers,
                    mjStatusClosed, mjStopClosed, mjEvents, mjDelivered, mjWatchSt,
                    mjWatchItem, mjAggSt, errDuringMirror, mjTarget, mjUploads, mjRemoves,
                    mjResults, mjHandled, mjStats, mjWatchErr, mjMsgs, mjEnqueued, msVars,
                    envVars, dfVars, rmVars, rvVars, afVars >>

\* case sURLs, ok := <-URLsCh with ok: an error-only intent goes to statusCh,
\* a filtered one is skipped, any other one is added to the totals.
MjScanRecv ==
    /\ mjScanSt = "select"
    /\ mjScanPos <= Len(mjStream)
    /\ mjScanPos' = mjScanPos + 1
    /\ LET sURLs == mjStream[mjScanPos]
       IN  IF sURLs.err # "none"
           THEN /\ mjScanSt' = "status"
                /\ mjScanItem' = sURLs
                /\ UNCHANGED << mjStatus, mjCounted >>
           ELSE IF startFiltered(mjF, sURLs)
           THEN UNCHANGED << mjScanSt, mjScanItem, mjStatus, mjCounted >>
           ELSE /\ mjStatus' = StatusAdd(mjStatus, sURLs)
                /\ mjCounted' = mjCounted (+) SetToBag({sURLs})
                /\ mjScanSt' = "counted"
                /\ mjScanItem' = sURLs
    /\ UNCHANGED << cpVars, mjF, mjStream, mjQueue, mjQueueClosed, mjWorkers,
                    mjStatusClosed, mjStopClosed, mjEvents, mjDelivered, mjWatchSt,
                    mjWatchItem, mjAggSt, errDuringMirror, mjTarget, mjUploads, mjRemoves,
                    mjResults, mjHandled, mjStats, mjWatchErr, mjMsgs, mjEnqueued, msVars,
                    envVars, dfVars, rmVars, rvVars, afVars >>

\* startMirror without the mj.isRemove test of line 588: a removal intent is
\* queued whatever the flags.
MjScanReadQueuesRemoval ==
    /\ mjScanSt = "counted"
    /\ mjScanSt' = "queue"
    /\ mjScanItem' = [mjScanItem EXCEPT !.cnt = mjStatus.counts]
    /\ UNCHANGED << cpVars, mjF, mjStream, mjScanPos, mjStatus, mjQueue, mjQueueClosed,
                    mjWorkers, mjStatusClosed, mjStopClosed, mjEvents, mjDelivered,
                    mjWatchSt, mjWatchItem, mjAggSt, errDuringMirror, mjTarget, mjCounted,
                    mjUploads, mjRemoves, mjResults, mjHandled, mjStats, mjWatchErr,
                    mjMsgs, mjEnqueued, msVars, envVars, dfVars, rmVars, rvVars, afVars >>

\* sURLs.TotalCount = mj.status.GetCounts(); then the closure to queue is
\* chosen: doMirror for a copy, doRemove for a removal when --remove is set.
MjScanRead ==
    /\ mjScanSt = "counted"
    /\ LET sURLs == [mjScanItem EXCEPT !.cnt = mjStatus.counts]
       IN  IF sURLs.kind = "copy" \/ (sURLs.kind = "remove" /\ mjF.isRemove)
           THEN /\ mjScanSt' = "queue"
                /\ mjScanItem' = sURLs
           ELSE /\ mjScanSt' = "select"
                /\ mjScanItem' = NoMirrorURLs
    /\ UNCHANGED << cpVars, mjF, mjStream, mjScanPos, mjStatus, mjQueue, mjQueueClosed,
                    mjWorkers, mjStatusClosed, mjStopClosed, mjEvents, mjDelivered,
                    mjWatchSt, mjWatchItem, mjAggSt, errDuringMirror, mjTarget, mjCounted,
                    mjUploads, mjRemoves, mjResults, mjHandled, mjStats, mjWatchErr,
                    mjMsgs, mjEnqueued, msVars, envVars, dfVars, rmVars, rvVars, afVars >>

\* mj.queueCh <- func() URLs {...}
MjScanQueue ==
    /\ mjScanSt = "queue"
    /\ ~mjQueueClosed
    /\ Len(mjQueue) < QueueCap
    /\ mjQueue' = Append(mjQueue, mjScanItem)
    /\ mjEnqueued' = mjEnqueued \cup {mjScanItem}
    /\ mjScanItem' = NoMirrorURLs
    /\ mjScanSt' = "select"
    /\ UNCHANGED << cpVars, mjF, mjStream, mjScanPos, mjStatus, mjQueueClosed, mjWorkers,
                    mjStatusClosed, mjStopClosed, mjEvents, mjDelivered, mjWatchSt,
                    mjWatchItem, mjAggSt, errDuringMirror, mjTarget, mjCounted, mjUploads,
                    mjRemoves, mjResults, mjHandled, mjStats, mjWatchErr, mjMsgs, msVars,
                    envVars, dfVars, rmVars, rvVars, afVars >>

\* case sURLs, ok := <-URLsCh with !ok: stopParallel closes the queue.
MjScanDrained ==
    /\ mjScanSt = "select"
    /\ mjScanPos > Len(mjStream)
    /\ mjQueueClosed' = TRUE
    /\ mjScanSt' = "wait"
    /\ UNCHANGED << cpVars, mjF, mjStream, mjScanPos, mjScanItem, mjStatus, mjQueue,
                    mjWorkers, mjStatusClosed, mjStopClosed, mjEvents, mjDelivered,
                    mjWatchSt, mjWatchItem, mjAggSt, errDuringMirror, mjTarget, mjCounted,
                    mjUploads, mjRemoves, mjResults, mjHandled, mjStats, mjWatchErr,
                    mjMsgs, mjEnqueued, msVars, envVars, dfVars, rmVars, rvVars, afVars >>

\* case <-mj.stopCh: stopParallel closes the queue.
MjScanStop ==
    /\ mjScanSt = "select"
    /\ mjStopClosed
    /\ mjQueueClosed' = TRUE
    /\ mjScanSt' = "wait"
    /\ UNCHANGED << cpVars, mjF, mjStream, mjScanPos, mjScanItem, mjStatus, mjQueue,
                    mjWorkers, mjStatusClosed, mjStopClosed, mjEvents, mjDelivered,
                    mjWatchSt, mjWatchItem, mjAggSt, errDuringMirror, mjTarget, mjCounted,
                    mjUploads, mjRemoves, mjResults, mjHandled, mjStats, mjWatchErr,
                    mjMsgs, mjEnqueued, msVars, envVars, dfVars, rmVars, rvVars, afVars >>

\* mj.parallel.wait() has returned and startMirror returns.
MjScanDone ==
    /\ mjScanSt = "wait"
    /\ \A w \in Workers : mjWorkers[w].st = "exit"
    /\ mjScanSt' = "done"
    /\ UNCHANGED << cpVars, mjF, mjStream, mjScanPos, mjScanItem, mjStatus, mjQueue,
                    mjQueueClosed, mjWorkers, mjStatusClosed, mjStopClosed, mjEvents,
                    mjDelivered, mjWatchSt, mjWatchItem, mjAggSt, errDuringMirror,
                    mjTarget, mjCounted, mjUploads, mjRemoves, mjResults, mjHandled,
                    mjStats, mjWatchErr, mjMsgs, mjEnqueued, msVars, envVars, dfVars,
                    rmVars, rvVars, afVars >>

(***************************************************************************)
(* mirror: the workers of mj.parallel                                      *)
(***************************************************************************)
MjWorkerTake(w) ==
    /\ mjWorkers[w].st = "idle"
    /\ mjQueue # << >>
    /\ mjWorkers' = [mjWorkers EXCEPT ![w] = [st |-> "run", it |-> Head(mjQueue)]]
    /\ mjQueue' = Tail(mjQueue)
    /\ UNCHANGED << cpVars, mjF, mjStream, mjScanPos, mjScanSt, mjScanItem, mjStatus,
                    mjQueueClosed, mjStatusClosed, mjStopClosed, mjEvents, mjDelivered,
                    mjWatchSt, mjWatchItem, mjAggSt, errDuringMirror, mjTarget, mjCounted,
                    mjUploads, mjRemoves, mjResults, mjHandled, mjStats, mjWatchErr,
                    mjMsgs, mjEnqueued, msVars, envVars, dfVars, rmVars, rvVars, afVars >>

MjWorkerExit(w) ==
    /\ mjWorkers[w].st = "idle"
    /\ mjQueue = << >>
    /\ mjQueueClosed
    /\ mjWorkers' = [mjWorkers EXCEPT ![w].st = "exit"]
    /\ UNCHANGED << cpVars, mjF, mjStream, mjScanPos, mjScanSt, mjScanItem, mjStatus,
                    mjQueue, mjQueueClosed, mjStatusClosed, mjStopClosed, mjEvents,
                    mjDelivered, mjWatchSt, mjWatchItem, mjAggSt, errDuringMirror,
                    mjTarget, mjCounted, mjUploads, mjRemoves, mjResults, mjHandled,
                    mjStats, mjWatchErr, mjMsgs, mjEnqueued, msVars, envVars, dfVars,
                    rmVars, rvVars, afVars >>

\* fn(): doMirror or doRemove runs to its end.
MjWorkerRun(w) ==
    /\ mjWorkers[w].st = "run"
    /\ \E outcome \in MirrorOutcomes(mjWorkers[w].it) :
         LET it == mjWorkers[w].it
             r == MirrorRun(mjF, it, outcome)
         IN  /\ mjWorkers' = [mjWorkers EXCEPT ![w] = [st |-> "send", it |-> r]]
             /\ MirrorEffects(mjF, it, r)
    /\ UNCHANGED << cpVars, mjF, mjStream, mjScanPos, mjScanSt, mjScanItem, mjQueue,
                    mjQueueClosed, mjStatusClosed, mjStopClosed, mjEvents, mjDelivered,
                    mjWatchSt, mjWatchItem, mjAggSt, errDuringMirror, mjCounted,
                    mjResults, mjHandled, mjStats, mjWatchErr, mjMsgs, mjEnqueued, msVars,
                    envVars, dfVars, rmVars, rvVars, afVars >>

(***************************************************************************)
(* mirror: watchMirror                                                     *)
(***************************************************************************)
\* The watcher of the source delivers an event.
MjEventArrives ==
    /\ mjF.isWatch
    /\ mjWatchSt \notin {"off", "done"}
    /\ mjDelivered < MaxEvents
    /\ \E ev \in WatchEvents : mjEvents' = Append(mjEvents, ev)
    /\ mjDelivered' = mjDelivered + 1
    /\ UNCHANGED << cpVars, mjF, mjStream, mjScanPos, mjScanSt, mjScanItem, mjStatus,
                    mjQueue, mjQueueClosed, mjWorkers, mjStatusClosed, mjStopClosed,
                    mjWatchSt, mjWatchItem, mjAggSt, errDuringMirror, mjTarget, mjCounted,
                    mjUploads, mjRemoves, mjResults, mjHandled, mjStats, mjWatchErr,
                    mjMsgs, mjEnqueued, msVars, envVars, dfVars, rmVars, rvVars, afVars >>

\* case event, ok := <-mj.watcher.Events() with ok
MjWatchRecv ==
    /\ mjWatchSt = "select"
    /\ mjEvents # << >>
    /\ mjEvents' = Tail(mjEvents)
    /\ mjHandled' = Append(mjHandled, Head(mjEvents))
    /\ mjStats' = IF watchStats(mjF, Head(mjEvents)) THEN mjStats + 1 ELSE mjStats
    /\ LET ev == Head(mjEvents)
           d == watchDecision(mjF, ev, ev.path \in mjTarget)
       IN  IF d = "mirror"
           THEN /\ mjStatus' = StatusAdd(mjStatus, watchCreateURLs(ev))
                /\ mjCounted' = mjCounted (+) SetToBag({watchCreateURLs(ev)})
                /\ mjWatchItem' = watchCreateURLs(ev)
                /\ mjWatchSt' = "counted"
           ELSE IF d = "remove"
           THEN /\ mjWatchItem' = [watchRemoveURLs(ev) EXCEPT !.cnt = mjStatus.counts]
                /\ mjWatchSt' = "exec"
                /\ UNCHANGED << mjStatus, mjCounted >>
           ELSE UNCHANGED << mjWatchItem, mjWatchSt, mjStatus, mjCounted >>
    /\ UNCHANGED << cpVars, mjF, mjStream, mjScanPos, mjScanSt, mjScanItem, mjQueue,
                    mjQueueClosed, mjWorkers, mjStatusClosed, mjStopClosed, mjDelivered,
                    mjAggSt, errDuringMirror, mjTarget, mjUploads, mjRemoves, mjResults,
                    mjWatchErr, mjMsgs, mjEnqueued, msVars, envVars, dfVars, rmVars,
                    rvVars, afVars >>

\* mirrorURL.TotalCount = mj.status.GetCounts()
MjWatchRead ==
    /\ mjWatchSt = "counted"
    /\ mjWatchItem' = [mjWatchItem EXCEPT !.cnt = mjStatus.counts]
    /\ mjWatchSt' = "exec"
    /\ UNCHANGED << cpVars, mjF, mjStream, mjScanPos, mjScanSt, mjScanItem, mjStatus,
                    mjQueue, mjQueueClosed, mjWorkers, mjStatusClosed, mjStopClosed,
                    mjEvents, mjDelivered, mjAggSt, errDuringMirror, mjTarget, mjCounted,
                    mjUploads, mjRemoves, mjResults, mjHandled, mjStats, mjWatchErr,
                    mjMsgs, mjEnqueued, msVars, envVars, dfVars, rmVars, rvVars, afVars >>

\* mj.doMirror(ctx, cancelMirror, mirrorURL) or mj.doRemove(mirrorURL), called
\* by the watch goroutine itself, runs to its end.
MjWatchRun ==
    /\ mjWatchSt = "exec"
    /\ \E outcome \in MirrorOutcomes(mjWatchItem) :
         LET r == MirrorRun(mjF, mjWatchItem, outcome)
         IN  /\ mjWatchItem' = r
             /\ MirrorEffects(mjF, mjWatchItem, r)
    /\ mjWatchSt' = "send"
    /\ UNCHANGED << cpVars, mjF, mjStream, mjScanPos, mjScanSt, mjScanItem, mjQueue,
                    mjQueueClosed, mjWorkers, mjStatusClosed, mjStopClosed, mjEvents,
                    mjDelivered, mjAggSt, errDuringMirror, mjCounted, mjResults,
                    mjHandled, mjStats, mjWatchErr, mjMsgs, mjEnqueued, msVars, envVars,
                    dfVars, rmVars, rvVars, afVars >>

\* case event, ok := <-mj.watcher.Events() with !ok
MjWatchClosed ==
    /\ mjWatchSt = "select"
    /\ mjEvents = << >>
    /\ mjWatchSt' = "done"
    /\ UNCHANGED << cpVars, mjF, mjStream, mjScanPos, mjScanSt, mjScanItem, mjStatus,
                    mjQueue, mjQueueClosed, mjWorkers, mjStatusClosed, mjStopClosed,
                    mjEvents, mjDelivered, mjWatchItem, mjAggSt, errDuringMirror,
                    mjTarget, mjCounted, mjUploads, mjRemoves, mjResults, mjHandled,
                    mjStats, mjWatchErr, mjMsgs, mjEnqueued, msVars, envVars, dfVars,
                    rmVars, rvVars, afVars >>

\* case <-mj.stopCh
MjWatchStop ==
    /\ mjWatchSt = "select"
    /\ mjStopClosed
    /\ mjWatchSt' = "done"
    /\ UNCHANGED << cpVars, mjF, mjStream, mjScanPos, mjScanSt, mjScanItem, mjStatus,
                    mjQueue, mjQueueClosed, mjWorkers, mjStatusClosed, mjStopClosed,
                    mjEvents, mjDelivered, mjWatchItem, mjAggSt, errDuringMirror,
                    mjTarget, mjCounted, mjUploads, mjRemoves, mjResults, mjHandled,
                    mjStats, mjWatchErr, mjMsgs, mjEnqueued, msVars, envVars, dfVars,
                    rmVars, rvVars, afVars >>

\* watchMirror without the APINotImplemented case (lines 521-526): every watch
\* error is sent to statusCh.
MjWatchErrorAlwaysReports ==
    /\ mjWatchSt = "select"
    /\ \E kind \in {"notImplemented", "other"} :
         /\ mjWatchErr' = kind
         /\ mjWatchSt' = "senderr"
         /\ mjWatchItem' = MirrorErrorURLs("watch")
    /\ UNCHANGED << cpVars, mjF, mjStream, mjScanPos, mjScanSt, mjScanItem, mjStatus,
                    mjQueue, mjQueueClosed, mjWorkers, mjStatusClosed, mjStopClosed,
                    mjEvents, mjDelivered, mjAggSt, errDuringMirror, mjTarget, mjCounted,
                    mjUploads, mjRemoves, mjResults, mjHandled, mjStats, mjMsgs,
                    mjEnqueued, msVars, envVars, dfVars, rmVars, rvVars, afVars >>

\* case err := <-mj.watcher.Errors(): APINotImplemented ends the loop, any
\* other error is sent to statusCh first.
MjWatchError ==
    /\ mjWatchSt = "select"
    /\ \E kind \in {"notImplemented", "other"} :
         /\ mjWatchErr' = kind
         /\ IF kind = "notImplemented"
            THEN /\ mjWatchSt' = "done"
                 /\ UNCHANGED mjWatchItem
            ELSE /\ mjWatchSt' = "senderr"
                 /\ mjWatchItem' = MirrorErrorURLs("watch")
    /\ UNCHANGED << cpVars, mjF, mjStream, mjScanPos, mjScanSt, mjScanItem, mjStatus,
                    mjQueue, mjQueueClosed, mjWorkers, mjStatusClosed, mjStopClosed,
                    mjEvents, mjDelivered, mjAggSt, errDuringMirror, mjTarget, mjCounted,
                    mjUploads, mjRemoves, mjResults, mjHandled, mjStats, mjMsgs,
                    mjEnqueued, msVars, envVars, dfVars, rmVars, rvVars, afVars >>

(***************************************************************************)
(* mirror: mirror() and monitorMirrorStatus                                *)
(***************************************************************************)
\* The mutant of MjCloseStatus: statusCh is closed without wg.Wait().
MjCloseStatusNoWait ==
    /\ ~mjStatusClosed
    /\ mjStatusClosed' = TRUE
    /\ UNCHANGED << cpVars, mjF, mjStream, mjScanPos, mjScanSt, mjScanItem, mjStatus,
                    mjQueue, mjQueueClosed, mjWorkers, mjStopClosed, mjEvents,
                    mjDelivered, mjWatchSt, mjWatchItem, mjAggSt, errDuringMirror,
                    mjTarget, mjCounted, mjUploads, mjRemoves, mjResults, mjHandled,
                    mjStats, mjWatchErr, mjMsgs, mjEnqueued, msVars, envVars, dfVars,
                    rmVars, rvVars, afVars >>

\* wg.Wait(); close(mj.statusCh)
MjCloseStatus ==
    /\ mjScanSt = "done"
    /\ mjWatchSt \in {"off", "done"}
    /\ ~mjStatusClosed
    /\ mjStatusClosed' = TRUE
    /\ UNCHANGED << cpVars, mjF, mjStream, mjScanPos, mjScanSt, mjScanItem, mjStatus,
                    mjQueue, mjQueueClosed, mjWorkers, mjStopClosed, mjEvents,
                    mjDelivered, mjWatchSt, mjWatchItem, mjAggSt, errDuringMirror,
                    mjTarget, mjCounted, mjUploads, mjRemoves, mjResults, mjHandled,
                    mjStats, mjWatchErr, mjMsgs, mjEnqueued, msVars, envVars, dfVars,
                    rmVars, rvVars, afVars >>

\* errorIf of monitorMirrorStatus reports the error of this result.
aggReports(sURLs) ==
    /\ sURLs.err # "none"
    /\ sURLs.kind = "copy" => ~isErrIgnored(sURLs.err)

\* monitorMirrorStatus prints the rmMessage of this result: the loop has not
\* been left at the error, SourceContent is nil and TargetContent is not.
aggPrintsRm(f, sURLs) ==
    /\ ~(sURLs.err # "none" /\ f.multiMaster)
    /\ sURLs.kind = "remove"

\* What monitorMirrorStatus prints for one result.
aggMsgs(f, sURLs) ==
    (IF aggReports(sURLs) THEN {[msg |-> "error", of |-> sURLs]} ELSE {})
    \cup (IF aggPrintsRm(f, sURLs) THEN {[msg |-> "rm", of |-> sURLs]} ELSE {})

\* monitorMirrorStatus leaving its loop at an error whatever the mode.
MjAggHandleStopsOnError(sURLs) ==
    /\ mjResults' = mjResults (+) SetToBag({sURLs})
    /\ mjMsgs' = mjMsgs (+) SetToBag(aggMsgs(mjF, sURLs))
    /\ errDuringMirror' =
          IF sURLs.err = "none" THEN errDuringMirror
          ELSE IF sURLs.kind = "copy" THEN errDuringMirror \/ ~isErrIgnored(sURLs.err)
          ELSE TRUE
    /\ IF sURLs.err # "none"
       THEN /\ mjStopClosed' = TRUE
            /\ mjAggSt' = "done"
       ELSE UNCHANGED << mjStopClosed, mjAggSt >>

\* The body of the loop of monitorMirrorStatus for one result.
MjAggHandle(sURLs) ==
    /\ mjResults' = mjResults (+) SetToBag({sURLs})
    /\ mjMsgs' = mjMsgs (+) SetToBag(aggMsgs(mjF, sURLs))
    /\ errDuringMirror' =
          IF sURLs.err = "none" THEN errDuringMirror
          ELSE IF sURLs.kind = "copy" THEN errDuringMirror \/ ~isErrIgnored(sURLs.err)
          ELSE TRUE
    /\ IF sURLs.err # "none" /\ mjF.multiMaster
       THEN /\ mjStopClosed' = TRUE
            /\ mjAggSt' = "done"
       ELSE UNCHANGED << mjStopClosed, mjAggSt >>

\* for sURLs := range mj.statusCh: the result comes from worker w.
MjAggRecvWorker(w) ==
    /\ mjAggSt = "loop"
    /\ mjWorkers[w].st = "send"
    /\ MjAggHandle(mjWorkers[w].it)
    /\ mjWorkers' = [mjWorkers EXCEPT ![w] = MjIdleWorker]
    /\ UNCHANGED << cpVars, mjF, mjStream, mjScanPos, mjScanSt, mjScanItem, mjStatus,
                    mjQueue, mjQueueClosed, mjStatusClosed, mjEvents, mjDelivered,
                    mjWatchSt, mjWatchItem, mjTarget, mjCounted, mjUploads, mjRemoves,
                    mjHandled, mjStats, mjWatchErr, mjEnqueued, msVars, envVars, dfVars,
                    rmVars, rvVars, afVars >>

\* The result is the error-only intent startMirror forwards.
MjAggRecvScan ==
    /\ mjAggSt = "loop"
    /\ mjScanSt = "status"
    /\ MjAggHandle(mjScanItem)
    /\ mjScanItem' = NoMirrorURLs
    /\ mjScanSt' = "select"
    /\ UNCHANGED << cpVars, mjF, mjStream, mjScanPos, mjStatus, mjQueue, mjQueueClosed,
                    mjWorkers, mjStatusClosed, mjEvents, mjDelivered, mjWatchSt,
                    mjWatchItem, mjTarget, mjCounted, mjUploads, mjRemoves, mjHandled,
                    mjStats, mjWatchErr, mjEnqueued, msVars, envVars, dfVars, rmVars,
                    rvVars, afVars >>

\* The result comes from watchMirror.
MjAggRecvWatch ==
    /\ mjAggSt = "loop"
    /\ mjWatchSt \in {"send", "senderr"}
    /\ MjAggHandle(mjWatchItem)
    /\ mjWatchItem' = NoMirrorURLs
    /\ mjWatchSt' = IF mjWatchSt = "send" THEN "select" ELSE "done"
    /\ UNCHANGED << cpVars, mjF, mjStream, mjScanPos, mjScanSt, mjScanItem, mjStatus,
                    mjQueue, mjQueueClosed, mjWorkers, mjStatusClosed, mjEvents,
                    mjDelivered, mjTarget, mjCounted, mjUploads, mjRemoves, mjHandled,
                    mjStats, mjWatchErr, mjEnqueued, msVars, envVars, dfVars, rmVars,
                    rvVars, afVars >>

\* statusCh is closed: monitorMirrorStatus and mirror() return.
MjAggClosed ==
    /\ mjAggSt = "loop"
    /\ mjStatusClosed
    /\ mjAggSt' = "done"
    /\ UNCHANGED << cpVars, mjF, mjStream, mjScanPos, mjScanSt, mjScanItem, mjStatus,
                    mjQueue, mjQueueClosed, mjWorkers, mjStatusClosed, mjStopClosed,
                    mjEvents, mjDelivered, mjWatchSt, mjWatchItem, errDuringMirror,
                    mjTarget, mjCounted, mjUploads, mjRemoves, mjResults, mjHandled,
                    mjStats, mjWatchErr, mjMsgs, mjEnqueued, msVars, envVars, dfVars,
                    rmVars, rvVars, afVars >>

MjNext ==
    \/ MjScanRecv
    \/ MjScanRead
    \/ MjScanQueue
    \/ MjScanDrained
    \/ MjScanStop
    \/ MjScanDone
    \/ \E w \in Workers : MjWorkerTake(w)
    \/ \E w \in Workers : MjWorkerExit(w)
    \/ \E w \in Workers : MjWorkerRun(w)
    \/ MjEventArrives
    \/ MjWatchRecv
    \/ MjWatchRead
    \/ MjWatchRun
    \/ MjWatchClosed
    \/ MjWatchStop
    \/ MjWatchError
    \/ MjCloseStatus
    \/ \E w \in Workers : MjAggRecvWorker(w)
    \/ MjAggRecvScan
    \/ MjAggRecvWatch
    \/ MjAggClosed

\* A job of MirrorJobs, with or without a listing error at the head of the
\* scan.
MjInit ==
    \/ \E f \in MirrorJobs : \E k \in 0 .. 1 : MjInitWith(f, k)
    \/ \E f \in UnaskedRemovalJobs :
          MjInitStream(f, prepareMirrorURLs([f EXCEPT !.isRemove = TRUE], 0))

(***************************************************************************)
(* mirror: two multi-site jobs, A to B and B to A                          *)
(***************************************************************************)
Sites == {"A", "B"}

\* The target of the job whose source is site s.
Peer(s) == IF s = "A" THEN "B" ELSE "A"

\* The flags of a job of `mc mirror --watch --multi-master`.
MultiSiteFlags ==
    [NoFlags EXCEPT !.isWatch = TRUE, !.multiMaster = TRUE, !.isOverwrite = TRUE]

\* An object of a site: marker is its multiMasterETagKey user metadata.
NoObject == [exists |-> FALSE, marker |-> ""]

StoredObject(marker) == [exists |-> TRUE, marker |-> marker]

\* The path the user writes on A, and the path A holds when the jobs start.
UserPath == 1

SeedPath == 2

\* Site seed holds SeedPath and the other site is empty, the job of seed has
\* the copy of SeedPath in its batch scan, no job has started a transfer.
MsInitWith(seed) ==
    /\ msObjs = [s \in Sites |-> [p \in {UserPath, SeedPath} |->
                    IF s = seed /\ p = SeedPath THEN StoredObject("") ELSE NoObject]]
    /\ msEvents = [s \in Sites |-> << >>]
    /\ msScan = [s \in Sites |->
                    IF s = seed THEN << MirrorURLs("copy", SeedPath, 1, 0, "batch") >>
                    ELSE << >>]
    /\ msJobSt = [s \in Sites |-> "select"]
    /\ msItem = [s \in Sites |-> NoMirrorURLs]
    /\ msSent = [s \in Sites |-> << >>]
    /\ msUserWrote = FALSE

MsInit == \E seed \in Sites : MsInitWith(seed)

\* The user writes UserPath on site A, once; A notifies its watcher.
MsUserWrite ==
    /\ ~msUserWrote
    /\ msUserWrote' = TRUE
    /\ msObjs' = [msObjs EXCEPT !["A"][UserPath] = StoredObject("")]
    /\ msEvents' = [msEvents EXCEPT !["A"] =
                       Append(@, WatchEvent("create", UserPath, 1, "", "user"))]
    /\ UNCHANGED << cpVars, mjVars, msScan, msJobSt, msItem, msSent, envVars, dfVars,
                    rmVars, rvVars, afVars >>

\* startMirror of the job of site s takes the next intent of its scan.
MsScanRecv(s) ==
    /\ msJobSt[s] = "select"
    /\ msScan[s] # << >>
    /\ msItem' = [msItem EXCEPT ![s] = Head(msScan[s])]
    /\ msScan' = [msScan EXCEPT ![s] = Tail(@)]
    /\ msJobSt' = [msJobSt EXCEPT ![s] = "exec"]
    /\ UNCHANGED << cpVars, mjVars, msObjs, msEvents, msSent, msUserWrote, envVars,
                    dfVars, rmVars, rvVars, afVars >>

\* watchMirror of the job of site s takes an event of its source.
MsWatchRecv(s) ==
    /\ msJobSt[s] = "select"
    /\ msEvents[s] # << >>
    /\ msEvents' = [msEvents EXCEPT ![s] = Tail(@)]
    /\ LET ev == Head(msEvents[s])
           d == watchDecision(MultiSiteFlags, ev, msObjs[Peer(s)][ev.path].exists)
       IN  IF d = "mirror"
           THEN /\ msItem' = [msItem EXCEPT ![s] = watchCreateURLs(ev)]
                /\ msJobSt' = [msJobSt EXCEPT ![s] = "exec"]
           ELSE UNCHANGED << msItem, msJobSt >>
    /\ UNCHANGED << cpVars, mjVars, msObjs, msScan, msSent, msUserWrote, envVars, dfVars,
                    rmVars, rvVars, afVars >>

\* doMirror of the job of site s: a successful upload stores the object on the
\* peer with the metadata doMirror set, and the peer notifies its watcher;
\* an error makes the multi-site job stop.
MsMirrorRun(s) ==
    /\ msJobSt[s] = "exec"
    /\ Len(msSent[s]) < MaxTransfers
    /\ \E outcome \in {"none", "fatal"} :
         LET r == doMirror(MultiSiteFlags, msItem[s], outcome)
         IN  /\ msSent' = [msSent EXCEPT ![s] = Append(@, msItem[s])]
             /\ IF r.err = "none"
                THEN /\ msObjs' = [msObjs EXCEPT ![Peer(s)][r.path] = StoredObject(r.tmeta)]
                     /\ msEvents' = [msEvents EXCEPT ![Peer(s)] =
                            Append(@, WatchEvent("create", r.path, r.size, r.tmeta,
                                                 uaMirrorAppName))]
                     /\ msJobSt' = [msJobSt EXCEPT ![s] = "select"]
                ELSE /\ msJobSt' = [msJobSt EXCEPT ![s] = "stopped"]
                     /\ UNCHANGED << msObjs, msEvents >>
    /\ msItem' = [msItem EXCEPT ![s] = NoMirrorURLs]
    /\ UNCHANGED << cpVars, mjVars, msScan, msUserWrote, envVars, dfVars, rmVars, rvVars,
                    afVars >>

MsNext ==
    \/ MsUserWrite
    \/ \E s \in Sites : MsScanRecv(s)
    \/ \E s \in Sites : MsWatchRecv(s)
    \/ \E s \in Sites : MsMirrorRun(s)

\* The multi-site variables of a specification that runs a single job.
MsUnused ==
    /\ MsInitWith("A")
    /\ msUserWrote = FALSE

(***************************************************************************)
(* parseEnvURL and its test                                                *)
(***************************************************************************)
\* A URL string is a sequence of tokens: scheme, "://", user, ":", password,
\* "@", host, "/", path segment, "?", query.
\* The least i with s[i] in toks, Len(s) + 1 when there is none.
IndexAny(s, toks) ==
    IF \E i \in 1 .. Len(s) : s[i] \in toks
    THEN CHOOSE i \in 1 .. Len(s) : s[i] \in toks /\ \A j \in 1 .. i - 1 : s[j] \notin toks
    ELSE Len(s) + 1

\* The pieces an environment URL is written from.
EnvHost == "play.minio.io:9000"

EnvParts ==
    [scheme : {"https", "http", "ftp", ""},
     cred : {<< >>, << "username" >>, << "username", "password" >>},
     host : {EnvHost},
     path : {<< >>, << "/" >>, << "/", "path" >>},
     query : {"", "path=value"}]
    \cup {[scheme |-> "", cred |-> << >>, host |-> "", path |-> << >>, query |-> ""]}

\* The string of the pieces p.
EnvString(p) ==
    (IF p.scheme = "" THEN << >> ELSE << p.scheme, "://" >>)
    \o (IF Len(p.cred) = 0 THEN << >>
        ELSE IF Len(p.cred) = 1 THEN << p.cred[1], "@" >>
        ELSE << p.cred[1], ":", p.cred[2], "@" >>)
    \o (IF p.host = "" THEN << >> ELSE << p.host >>)
    \o p.path
    \o (IF p.query = "" THEN << >> ELSE << "?", p.query >>)

\* url.Parse: scheme up to "://", user-info up to "@", host up to the first
\* "/" or "?", path up to "?", query after it. Without a scheme everything
\* up to the query is path.
urlParse(s) ==
    LET hasScheme == Len(s) >= 2 /\ s[2] = "://"
        rest == IF hasScheme THEN SubSeq(s, 3, Len(s)) ELSE s
        q == IndexAny(rest, {"?"})
        beforeQ == SubSeq(rest, 1, q - 1)
        p == IF hasScheme THEN IndexAny(beforeQ, {"/"}) ELSE 1
        auth == SubSeq(beforeQ, 1, p - 1)
        at == IndexAny(auth, {"@"})
        info == IF at <= Len(auth) THEN SubSeq(auth, 1, at - 1) ELSE << >>
        host == IF at <= Len(auth) THEN SubSeq(auth, at + 1, Len(auth)) ELSE auth
        colon == IndexAny(info, {":"})
    IN  [Scheme |-> IF hasScheme THEN s[1] ELSE "",
         HasUser |-> at <= Len(auth),
         Username |-> IF colon > 1 /\ Len(info) >= 1 THEN info[1] ELSE "",
         Password |-> IF colon < Len(info) THEN info[colon + 1] ELSE "",
         Host |-> host,
         Path |-> SubSeq(beforeQ, p, Len(beforeQ)),
         RawQuery |-> SubSeq(rest, q + 1, Len(rest))]

\* u.String()
urlString(u) ==
    (IF u.Scheme = "" THEN << >> ELSE << u.Scheme, "://" >>)
    \o (IF ~u.HasUser THEN << >>
        ELSE IF u.Password = "" THEN << u.Username, "@" >>
        ELSE << u.Username, ":", u.Password, "@" >>)
    \o u.Host \o u.Path
    \o (IF u.RawQuery = << >> THEN << >> ELSE << "?" >> \o u.RawQuery)

NoParsedURL ==
    [Scheme |-> "", HasUser |-> FALSE, Username |-> "", Password |-> "",
     Host |-> << >>, Path |-> << >>, RawQuery |-> << >>]

\* parseEnvURL without the test of the path.
parseEnvURLAnyPath(str) ==
    LET u == urlParse(str)
    IN  IF ~(u.Scheme \in {"http", "https"} /\ u.RawQuery = << >>)
        THEN [u |-> NoParsedURL, accessKey |-> "", secretKey |-> "", err |-> TRUE]
        ELSE [u |-> [u EXCEPT !.HasUser = FALSE, !.Username = "", !.Password = ""],
              accessKey |-> u.Username, secretKey |-> u.Password, err |-> FALSE]

\* parseEnvURL: the keys of the user-info, an error unless the scheme is http
\* or https, the path empty or "/" and the query empty; u.User = nil.
parseEnvURL(str) ==
    LET u == urlParse(str)
    IN  IF ~(u.Scheme \in {"http", "https"} /\ u.Path \in {<< >>, << "/" >>}
             /\ u.RawQuery = << >>)
        THEN [u |-> NoParsedURL, accessKey |-> "", secretKey |-> "", err |-> TRUE]
        ELSE [u |-> [u EXCEPT !.HasUser = FALSE, !.Username = "", !.Password = ""],
              accessKey |-> u.Username, secretKey |-> u.Password, err |-> FALSE]

\* testCases of TestParseURLEnv
testCases ==
    { [envURL |-> << "https", "://", "username", ":", "password", "@", EnvHost, "/" >>,
       expectedURL |-> << "https", "://", EnvHost, "/" >>,
       expectedAccess |-> "username", expectedSecret |-> "password", success |-> TRUE],
      [envURL |-> << "https", "://", EnvHost, "/" >>,
       expectedURL |-> << "https", "://", EnvHost, "/" >>,
       expectedAccess |-> "", expectedSecret |-> "", success |-> TRUE],
      [envURL |-> << "ftp", "://", EnvHost, "/" >>,
       expectedURL |-> << >>,
       expectedAccess |-> "", expectedSecret |-> "", success |-> FALSE],
      [envURL |-> << >>,
       expectedURL |-> << >>,
       expectedAccess |-> "", expectedSecret |-> "", success |-> FALSE],
      [envURL |-> << "https", "://", EnvHost, "/", "path" >>,
       expectedURL |-> << >>,
       expectedAccess |-> "", expectedSecret |-> "", success |-> FALSE],
      [envURL |-> << "https", "://", EnvHost, "/", "?", "path=value" >>,
       expectedURL |-> << >>,
       expectedAccess |-> "", expectedSecret |-> "", success |-> FALSE] }

\* The body of the loop of TestParseURLEnv for one test case: what t.Fatalf
\* and t.Errorf leave behind.
testVerdict(testCase, ret) ==
    IF ret.err /\ testCase.success THEN "fatal"
    ELSE IF ~ret.err /\ ~testCase.success THEN "fatal"
    ELSE IF ret.accessKey # testCase.expectedAccess THEN "error"
    ELSE IF ret.secretKey # testCase.expectedSecret THEN "error"
    ELSE IF ~ret.err /\ urlString(ret.u) # testCase.expectedURL THEN "error"
    ELSE "pass"

NoEnvRet == [u |-> NoParsedURL, accessKey |-> "", secretKey |-> "", err |-> FALSE]

\* An environment URL is written.
EnvInit ==
    /\ envParts \in EnvParts
    /\ envURL = EnvString(envParts)
    /\ envPc = "call"
    /\ envRet = NoEnvRet
    /\ envVerdict = "none"

\* The environment variables of a specification that parses no URL.
EnvUnused ==
    /\ envParts = [scheme |-> "", cred |-> << >>, host |-> "", path |-> << >>,
                   query |-> ""]
    /\ envURL = << >>
    /\ envPc = "unused"
    /\ envRet = NoEnvRet
    /\ envVerdict = "none"

\* u, accessKey, secretKey, err := parseEnvURL(envURL)
EnvParse ==
    /\ envPc = "call"
    /\ envRet' = parseEnvURL(envURL)
    /\ envPc' = "returned"
    /\ UNCHANGED << cpVars, mjVars, msVars, envParts, envURL, envVerdict, dfVars, rmVars,
                    rvVars, afVars >>

\* The assertions of TestParseURLEnv, when envURL is one of its test cases.
EnvTest ==
    /\ envPc = "returned"
    /\ \E testCase \in testCases :
         /\ testCase.envURL = envURL
         /\ envVerdict' = testVerdict(testCase, envRet)
    /\ envPc' = "tested"
    /\ UNCHANGED << cpVars, mjVars, msVars, envParts, envURL, envRet, dfVars, rmVars,
                    rvVars, afVars >>

EnvNext ==
    \/ EnvParse
    \/ EnvTest

(***************************************************************************)
(* mirror: the batch scan as a whole, and the same command run again       *)
(***************************************************************************)
\* The paths a and b of the scenarios, the sizes and the times of an object.
PathA == 1

PathB == 2

DfPaths == {PathA, PathB}

DfSizes == {10, 20}

DfAges == {1, 2}

\* The namespaces over DfPaths.
Namespaces ==
    UNION {[ps -> [size : DfSizes, age : DfAges]] : ps \in SUBSET DfPaths}

\* The flags of the jobs that are scanned: with and without --remove, with and
\* without --older-than.
DfJobs ==
    {[NoFlags EXCEPT !.isRemove = r, !.olderThan = o] : r \in BOOLEAN, o \in {0, 2}}

\* startMirror queues a closure for this intent of URLsCh.
startQueues(f, sURLs) ==
    /\ sURLs.err = "none"
    /\ ~startFiltered(f, sURLs)
    /\ sURLs.kind = "copy" \/ (sURLs.kind = "remove" /\ f.isRemove)

\* startMirror adds this intent of URLsCh to the totals.
startCounts(f, sURLs) == sURLs.err = "none" /\ ~startFiltered(f, sURLs)

\* The loop of startMirror over the whole of URLsCh: the intents it queues.
RECURSIVE startMirrorQueued(_, _)
startMirrorQueued(f, stream) ==
    IF stream = << >> THEN << >>
    ELSE (IF startQueues(f, Head(stream)) THEN << Head(stream) >> ELSE << >>)
         \o startMirrorQueued(f, Tail(stream))

\* The loop of startMirror over the whole of URLsCh: the totals it leaves,
\* starting from st.
RECURSIVE startMirrorTotals(_, _, _)
startMirrorTotals(f, stream, st) ==
    IF stream = << >> THEN st
    ELSE startMirrorTotals(f, Tail(stream),
                           IF startCounts(f, Head(stream))
                           THEN StatusAdd(st, Head(stream)) ELSE st)

\* The object an upload leaves on the target, with another time than the
\* source object's.
uploadedObjectStamped(obj) == [size |-> obj.size, age |-> 3]

\* The object a successful upload of source object obj leaves on the target.
uploadedObject(obj) == [size |-> obj.size, age |-> obj.age]

\* The target after every intent of the sequence has been executed without
\* error.
RECURSIVE executeAll(_, _, _)
executeAll(intents, src, tgt) ==
    IF intents = << >> THEN tgt
    ELSE LET it == Head(intents)
             next == IF it.kind = "copy"
                     THEN [p \in DOMAIN tgt \cup {it.path} |->
                             IF p = it.path THEN uploadedObject(src[p]) ELSE tgt[p]]
                     ELSE [p \in DOMAIN tgt \ {it.path} |-> tgt[p]]
         IN  executeAll(Tail(intents), src, next)

DfInit ==
    /\ dfF \in DfJobs
    /\ dfSrc \in Namespaces
    /\ dfTgt \in Namespaces
    /\ dfPc = "start"
    /\ dfRun = 1
    /\ dfIntents = << >>
    /\ dfTotals = [counts |-> 0, bytes |-> 0]
    /\ dfMirrored = {}

\* The scan variables of a specification that scans nothing.
DfUnused ==
    /\ dfF = NoFlags
    /\ dfSrc = << >>
    /\ dfTgt = << >>
    /\ dfPc = "unused"
    /\ dfRun = 0
    /\ dfIntents = << >>
    /\ dfTotals = [counts |-> 0, bytes |-> 0]
    /\ dfMirrored = {}

\* startMirror reads URLsCh to its end.
DfScan ==
    /\ dfPc = "start"
    /\ LET stream == DiffOf(dfF, dfSrc, dfTgt, DOMAIN dfSrc \cup DOMAIN dfTgt)
       IN  /\ dfIntents' = startMirrorQueued(dfF, stream)
           /\ dfTotals' = startMirrorTotals(dfF, stream, [counts |-> 0, bytes |-> 0])
    /\ dfPc' = "scanned"
    /\ UNCHANGED << cpVars, mjVars, msVars, envVars, dfF, dfSrc, dfTgt, dfRun, dfMirrored,
                    rmVars, rvVars, afVars >>

\* The workers run every queued intent and none fails.
DfExecute ==
    /\ dfPc = "scanned"
    /\ dfTgt' = executeAll(dfIntents, dfSrc, dfTgt)
    /\ dfMirrored' = IF dfRun = 1
                     THEN {dfIntents[i].path :
                             i \in {j \in 1 .. Len(dfIntents) : dfIntents[j].kind = "copy"}}
                     ELSE dfMirrored
    /\ dfPc' = "executed"
    /\ UNCHANGED << cpVars, mjVars, msVars, envVars, dfF, dfSrc, dfRun, dfIntents,
                    dfTotals, rmVars, rvVars, afVars >>

\* The command is run once more on the source and the target as they are.
DfRerun ==
    /\ dfPc = "executed"
    /\ dfRun = 1
    /\ dfRun' = 2
    /\ dfPc' = "start"
    /\ dfIntents' = << >>
    /\ dfTotals' = [counts |-> 0, bytes |-> 0]
    /\ UNCHANGED << cpVars, mjVars, msVars, envVars, dfF, dfSrc, dfTgt, dfMirrored,
                    rmVars, rvVars, afVars >>

DfNext ==
    \/ DfScan
    \/ DfExecute
    \/ DfRerun

(***************************************************************************)
(* mirror: runMirror and mainMirror                                        *)
(***************************************************************************)
\* Buckets 1 and 2 are at the source, buckets 2 and 3 may be at the target.
SourceBuckets == {1, 2}

TargetBuckets == {2, 3}

AllBuckets == << 1, 2, 3 >>

\* What GetObjectLockConfig of a source bucket yields: an error, no error and
\* no mode, or no error and a mode.
LockConfigs == {"none", "enabled", "rule"}

\* A bucket of the target: made with object lock, lock configuration set,
\* policies set.
TargetBucket(withLock) == [lock |-> withLock, cfg |-> FALSE, policy |-> FALSE]

\* The job of newMirrorJob: stopCh, statusCh and queueCh are new and open.
FreshJob == [stopClosed |-> FALSE, statusClosed |-> FALSE, queueClosed |-> FALSE]

\* The flags runMirror looks at, and whether both URLs are namespace roots.
RunFlags ==
    [multiMaster : BOOLEAN, isWatch : BOOLEAN, mirrorAllBuckets : BOOLEAN,
     isFake : BOOLEAN]

\* An entry of the log of calls on the target and on the watcher.
Call(op, b, ok) == [op |-> op, b |-> b, ok |-> ok, withLock |-> FALSE]

\* dirDifference of the two namespace roots, bucket by bucket: differInFirst,
\* differInSecond, or differInNone for a bucket on both sides.
dirDifference(src, tgt) ==
    LET diffOf(b) == IF b \in DOMAIN src /\ b \notin DOMAIN tgt THEN "first"
                     ELSE IF b \notin DOMAIN src /\ b \in DOMAIN tgt THEN "second"
                     ELSE IF b \in DOMAIN src THEN "none"
                     ELSE "absent"
    IN  SelectSeq([i \in 1 .. Len(AllBuckets) |->
                     [bucket |-> AllBuckets[i], diff |-> diffOf(AllBuckets[i])]],
                  LAMBDA d : d.diff # "absent")

\* tgt with bucket b set to v.
WithBucket(tgt, b, v) ==
    [x \in DOMAIN tgt \cup {b} |-> IF x = b THEN v ELSE tgt[x]]

RunInit ==
    /\ rmF \in RunFlags
    /\ rmSrc \in [SourceBuckets -> LockConfigs]
    /\ \E bs \in SUBSET TargetBuckets : rmTgt = [b \in bs |-> TargetBucket(FALSE)]
    /\ rmDiffs = << >>
    /\ rmPos = 1
    /\ rmPc = "main"
    /\ rmJob = FreshJob
    /\ rmLog = << >>
    /\ rmRet = FALSE
    /\ rmExit = 0
    /\ rmAborted = FALSE

\* The variables of runMirror in a specification that does not run it.
RunUnused ==
    /\ rmF = [multiMaster |-> FALSE, isWatch |-> FALSE, mirrorAllBuckets |-> FALSE,
              isFake |-> FALSE]
    /\ rmSrc = << >>
    /\ rmTgt = << >>
    /\ rmDiffs = << >>
    /\ rmPos = 1
    /\ rmPc = "unused"
    /\ rmJob = FreshJob
    /\ rmLog = << >>
    /\ rmRet = FALSE
    /\ rmExit = 0
    /\ rmAborted = FALSE

\* mainMirror calls runMirror, which builds the job with newMirrorJob and
\* starts on the buckets.
RmCall ==
    /\ rmPc \in {"main", "slept"}
    /\ rmJob' = FreshJob
    /\ rmLog' = << >>
    /\ rmRet' = FALSE
    /\ rmPos' = 1
    /\ rmDiffs' = IF rmF.mirrorAllBuckets THEN dirDifference(rmSrc, rmTgt) ELSE << >>
    /\ rmPc' = IF rmF.mirrorAllBuckets THEN "buckets" ELSE "single"
    /\ UNCHANGED << cpVars, mjVars, msVars, envVars, dfVars, rmF, rmSrc, rmTgt, rmExit,
                    rmAborted, rvVars, afVars >>

\* runMirror gives up before the job runs: it returns true in multi-site
\* mode, and fatalIf ends the process otherwise.
GiveUp ==
    /\ rmPc' = IF rmF.multiMaster THEN "returned" ELSE "exit"
    /\ rmRet' = rmF.multiMaster
    /\ rmExit' = IF rmF.multiMaster THEN rmExit ELSE 1

\* mj.watchURL for bucket b with outcome ok, when --watch is set; next is the
\* position runMirror goes to when it goes on.
WatchURL(log, b, ok, next) ==
    IF ~rmF.isWatch
    THEN /\ rmLog' = log
         /\ rmPc' = next
         /\ UNCHANGED << rmRet, rmExit >>
    ELSE /\ rmLog' = Append(log, Call("watchURL", b, ok))
         /\ IF ok
            THEN /\ rmPc' = next
                 /\ UNCHANGED << rmRet, rmExit >>
            ELSE GiveUp

\* The body of the loop over dirDifference for a bucket only at the source,
\* without the continue after a failed MakeBucket.
RmBucketFirstNoSkip(b, mk, sl, cp, wt) ==
    LET mode == rmSrc[b]
        withLock == mode # "none"
        made == [Call("MakeBucket", b, mk) EXCEPT !.withLock = withLock]
        log1 == Append(rmLog, made)
        log2 == IF mode = "rule"
                THEN Append(log1, Call("SetObjectLockConfig", b, sl)) ELSE log1
        log3 == Append(log2, Call("copyBucketPolicies", b, cp))
    IN  /\ rmTgt' = IF mk
                    THEN WithBucket(rmTgt, b,
                            [lock |-> withLock, cfg |-> mode = "rule" /\ sl, policy |-> cp])
                    ELSE rmTgt
        /\ WatchURL(log3, b, wt, "buckets")

\* The body of the loop over dirDifference for a bucket only at the source:
\* MakeBucket, then SetObjectLockConfig when the source has a mode, then
\* copyBucketPolicies, then watchURL; a failed MakeBucket skips the rest.
RmBucketFirst(b, mk, sl, cp, wt) ==
    LET mode == rmSrc[b]
        withLock == mode # "none"
        made == [Call("MakeBucket", b, mk) EXCEPT !.withLock = withLock]
        log1 == Append(rmLog, made)
        log2 == IF mode = "rule"
                THEN Append(log1, Call("SetObjectLockConfig", b, sl)) ELSE log1
        log3 == Append(log2, Call("copyBucketPolicies", b, cp))
    IN  IF ~mk
        THEN /\ rmLog' = log1
             /\ UNCHANGED << rmTgt, rmPc, rmRet, rmExit >>
        ELSE /\ rmTgt' = WithBucket(rmTgt, b,
                            [lock |-> withLock, cfg |-> mode = "rule" /\ sl, policy |-> cp])
             /\ WatchURL(log3, b, wt, "buckets")

\* for d := range dirDifference(...): one difference, or a listing error.
RmBucket ==
    /\ rmPc = "buckets"
    /\ rmPos <= Len(rmDiffs)
    /\ \/ /\ GiveUp
          /\ UNCHANGED << rmPos, rmTgt, rmLog >>
       \/ /\ rmPos' = rmPos + 1
          /\ LET d == rmDiffs[rmPos]
             IN  \E mk, sl, cp, wt \in BOOLEAN :
                   IF d.diff = "second"
                   THEN UNCHANGED << rmTgt, rmLog, rmPc, rmRet, rmExit >>
                   ELSE IF d.diff = "first"
                   THEN RmBucketFirst(d.bucket, mk, sl, cp, wt)
                   ELSE /\ UNCHANGED rmTgt
                        /\ WatchURL(rmLog, d.bucket, wt, "buckets")
    /\ UNCHANGED << cpVars, mjVars, msVars, envVars, dfVars, rmF, rmSrc, rmDiffs, rmJob,
                    rmAborted, rvVars, afVars >>

\* The loop over dirDifference has ended: runMirror calls mj.mirror.
RmBucketsEnd ==
    /\ rmPc = "buckets"
    /\ rmPos > Len(rmDiffs)
    /\ rmPc' = "mirror"
    /\ UNCHANGED << cpVars, mjVars, msVars, envVars, dfVars, rmF, rmSrc, rmTgt, rmDiffs,
                    rmPos, rmJob, rmLog, rmRet, rmExit, rmAborted, rvVars, afVars >>

\* The else branch for one source bucket and one target bucket: MakeBucket
\* ignoring an existing bucket, SetObjectLockConfig, copyBucketPolicies, then
\* watchURL; in multi-site mode each failure makes runMirror return true.
RmSingle ==
    /\ rmPc = "single"
    /\ \E mk, sl, cp, wt \in BOOLEAN :
         LET b == 1
             mode == rmSrc[b]
             withLock == mode # "none"
             made == [Call("MakeBucket", b, mk) EXCEPT !.withLock = withLock]
             log1 == Append(rmLog, made)
             log2 == IF mode = "rule"
                     THEN Append(log1, Call("SetObjectLockConfig", b, sl)) ELSE log1
             log3 == Append(log2, Call("copyBucketPolicies", b, cp))
             old == IF b \in DOMAIN rmTgt THEN rmTgt[b] ELSE TargetBucket(withLock)
         IN  IF ~mk
             THEN /\ rmLog' = log1
                  /\ GiveUp
                  /\ UNCHANGED rmTgt
             ELSE IF mode = "rule" /\ ~sl /\ rmF.multiMaster
             THEN /\ rmLog' = log2
                  /\ GiveUp
                  /\ rmTgt' = WithBucket(rmTgt, b, old)
             ELSE IF ~cp /\ rmF.multiMaster
             THEN /\ rmLog' = log3
                  /\ GiveUp
                  /\ rmTgt' = WithBucket(rmTgt, b,
                                 [old EXCEPT !.cfg = @ \/ (mode = "rule" /\ sl)])
             ELSE /\ rmTgt' = WithBucket(rmTgt, b,
                                 [old EXCEPT !.cfg = @ \/ (mode = "rule" /\ sl),
                                             !.policy = @ \/ cp])
                  /\ WatchURL(log3, b, wt, "mirror")
    /\ UNCHANGED << cpVars, mjVars, msVars, envVars, dfVars, rmF, rmSrc, rmDiffs, rmPos,
                    rmJob, rmAborted, rvVars, afVars >>

\* A worker of the running job runs doMirror on the objects of source bucket
\* b: a transfer, or in fake mode the update of the progress bar only.
RmTransfer ==
    /\ rmPc = "mirror"
    /\ \E b \in DOMAIN rmSrc :
         /\ \A i \in 1 .. Len(rmLog) :
               ~(rmLog[i].op \in {"transfer", "fake"} /\ rmLog[i].b = b)
         /\ rmLog' = Append(rmLog, Call(IF rmF.isFake THEN "fake" ELSE "transfer",
                                        b, b \in DOMAIN rmTgt))
    /\ UNCHANGED << cpVars, mjVars, msVars, envVars, dfVars, rmF, rmSrc, rmTgt, rmDiffs,
                    rmPos, rmPc, rmJob, rmRet, rmExit, rmAborted, rvVars, afVars >>

\* monitorMirrorStatus of a multi-site job meets an error: it closes stopCh
\* and mj.mirror returns.
RmJobAbort ==
    /\ rmPc = "mirror"
    /\ rmF.multiMaster
    /\ rmJob' = [rmJob EXCEPT !.stopClosed = TRUE]
    /\ rmAborted' = TRUE
    /\ \E e \in BOOLEAN : rmRet' = e
    /\ rmPc' = "returned"
    /\ UNCHANGED << cpVars, mjVars, msVars, envVars, dfVars, rmF, rmSrc, rmTgt, rmDiffs,
                    rmPos, rmLog, rmExit, rvVars, afVars >>

\* The scan and the watch loop have ended and statusCh is closed: mj.mirror
\* returns errDuringMirror, which is false in a multi-site job that met no
\* error.
RmJobEnd ==
    /\ rmPc = "mirror"
    /\ rmJob' = [rmJob EXCEPT !.queueClosed = TRUE, !.statusClosed = TRUE]
    /\ \E e \in BOOLEAN : rmRet' = (e /\ ~rmF.multiMaster)
    /\ rmPc' = "returned"
    /\ UNCHANGED << cpVars, mjVars, msVars, envVars, dfVars, rmF, rmSrc, rmTgt, rmDiffs,
                    rmPos, rmLog, rmExit, rmAborted, rvVars, afVars >>

\* mainMirror in multi-site mode without its loop: it returns after the
\* first runMirror.
RmSleepReturns ==
    /\ rmPc = "returned"
    /\ rmF.multiMaster
    /\ rmPc' = "done"
    /\ UNCHANGED << cpVars, mjVars, msVars, envVars, dfVars, rmF, rmSrc, rmTgt, rmDiffs,
                    rmPos, rmJob, rmLog, rmRet, rmExit, rmAborted, rvVars, afVars >>

\* The loop of mainMirror in multi-site mode: time.Sleep(2 s) after runMirror.
RmSleep ==
    /\ rmPc = "returned"
    /\ rmF.multiMaster
    /\ rmPc' = "slept"
    /\ UNCHANGED << cpVars, mjVars, msVars, envVars, dfVars, rmF, rmSrc, rmTgt, rmDiffs,
                    rmPos, rmJob, rmLog, rmRet, rmExit, rmAborted, rvVars, afVars >>

\* mainMirror without multi-site mode returns the exit status.
RmMainReturn ==
    /\ rmPc = "returned"
    /\ ~rmF.multiMaster
    /\ rmExit' = IF rmRet THEN 1 ELSE 0
    /\ rmPc' = "done"
    /\ UNCHANGED << cpVars, mjVars, msVars, envVars, dfVars, rmF, rmSrc, rmTgt, rmDiffs,
                    rmPos, rmJob, rmLog, rmRet, rmAborted, rvVars, afVars >>

RmNext ==
    \/ RmCall
    \/ RmBucket
    \/ RmBucketsEnd
    \/ RmSingle
    \/ RmTransfer
    \/ RmJobAbort
    \/ RmJobEnd
    \/ RmSleep
    \/ RmMainReturn

(***************************************************************************)
(* admin: the client factory of NewAdminFactory                            *)
(***************************************************************************)
\* The goroutines that call the function NewAdminFactory returned.
Callers == {1, 2}

\* The bytes of the characters the configurations are written with.
Byte(ch) == CASE ch = "a" -> 97 [] ch = "b" -> 98 [] ch = "c" -> 99 [] ch = "d" -> 100

\* The configurations: HostURL as url.Parse reads it, AccessKey, SecretKey.
Configs ==
    [HostURL : { << sch, "://" >> \o h : sch \in {"http", "https"},
                                         h \in {<< "a" >>, << "a", "b" >>} },
     AccessKey : {<< "c" >>, << "b", "c" >>},
     SecretKey : {<< "d" >>}]

\* The exclusive or of two bytes.
RECURSIVE Xor(_, _)
Xor(x, y) ==
    IF x = 0 THEN y
    ELSE IF y = 0 THEN x
    ELSE (((x % 2) + (y % 2)) % 2) + 2 * Xor(x \div 2, y \div 2)

\* One step of the 32-bit FNV-1a hash on the sum h, kept as its two 16-bit
\* halves << high, low >>: exclusive or with the byte, then multiplication by
\* the prime 16777619 = 2^24 + 403 modulo 2^32.
fnvStep(h, byte) ==
    LET lo == (h[2] - (h[2] % 256)) + Xor(h[2] % 256, byte)
        lowProd == lo * 403
    IN  << ((h[1] * 403) + (lowProd \div 65536) + ((lo % 256) * 256)) % 65536,
           lowProd % 65536 >>

\* fnv.New32a(), Write(data), Sum32(): from the offset basis 2166136261.
RECURSIVE fnvWrite(_, _)
fnvWrite(h, data) ==
    IF data = << >> THEN h ELSE fnvWrite(fnvStep(h, Byte(Head(data))), Tail(data))

Sum32a(data) == fnvWrite(<< 33052, 40389 >>, data)

\* confSum of a configuration: the hash of hostName + AccessKey + SecretKey.
confSum(config) ==
    Sum32a(urlParse(config.HostURL).Host \o config.AccessKey \o config.SecretKey)

\* The client madmin.NewWithOptions builds for a configuration.
NewWithOptions(config) ==
    [host |-> urlParse(config.HostURL).Host,
     accessKey |-> config.AccessKey,
     secretKey |-> config.SecretKey,
     secure |-> urlParse(config.HostURL).Scheme # "http"]

NoClient == [host |-> << >>, accessKey |-> << >>, secretKey |-> << >>, secure |-> FALSE]

AfInit ==
    /\ afConfig \in [Callers -> Configs]
    /\ afPc = [g \in Callers |-> "call"]
    /\ afSum = [g \in Callers |-> << 0, 0 >>]
    /\ afMutex = 0
    /\ clientCache = << >>
    /\ afApi = [g \in Callers |-> NoClient]
    /\ afBuilt = << >>

\* The variables of the factory in a specification that does not call it.
AfUnused ==
    /\ afConfig = << >>
    /\ afPc = << >>
    /\ afSum = << >>
    /\ afMutex = 0
    /\ clientCache = << >>
    /\ afApi = << >>
    /\ afBuilt = << >>

\* url.Parse, hostName and confSum: the part of the call before the lock.
AfHash(g) ==
    /\ afPc[g] = "call"
    /\ afSum' = [afSum EXCEPT ![g] = confSum(afConfig[g])]
    /\ afPc' = [afPc EXCEPT ![g] = "lock"]
    /\ UNCHANGED << cpVars, mjVars, msVars, envVars, dfVars, rmVars, rvVars, afConfig,
                    afMutex, clientCache, afApi, afBuilt >>

\* mutex.Lock()
AfLock(g) ==
    /\ afPc[g] = "lock"
    /\ afMutex = 0
    /\ afMutex' = g
    /\ afPc' = [afPc EXCEPT ![g] = "locked"]
    /\ UNCHANGED << cpVars, mjVars, msVars, envVars, dfVars, rmVars, rvVars, afConfig,
                    afSum, clientCache, afApi, afBuilt >>

\* api, found = clientCache[confSum]; when not found the client is built by
\* madmin.NewWithOptions, which may fail, and stored under confSum.
AfLookup(g) ==
    /\ afPc[g] = "locked"
    /\ LET key == afSum[g]
       IN  IF key \in DOMAIN clientCache
           THEN /\ afApi' = [afApi EXCEPT ![g] = clientCache[key]]
                /\ afPc' = [afPc EXCEPT ![g] = "found"]
                /\ UNCHANGED << clientCache, afBuilt >>
           ELSE \E ok \in BOOLEAN :
                  IF ok
                  THEN LET api == NewWithOptions(afConfig[g])
                       IN  /\ clientCache' = [k \in DOMAIN clientCache \cup {key} |->
                                                IF k = key THEN api ELSE clientCache[k]]
                           /\ afBuilt' = Append(afBuilt, key)
                           /\ afApi' = [afApi EXCEPT ![g] = api]
                           /\ afPc' = [afPc EXCEPT ![g] = "found"]
                  ELSE /\ afPc' = [afPc EXCEPT ![g] = "failed"]
                       /\ UNCHANGED << clientCache, afBuilt, afApi >>
    /\ UNCHANGED << cpVars, mjVars, msVars, envVars, dfVars, rmVars, rvVars, afConfig,
                    afSum, afMutex >>

\* return api, nil or return nil, err, with the deferred mutex.Unlock().
AfReturn(g) ==
    /\ afPc[g] \in {"found", "failed"}
    /\ afMutex' = 0
    /\ afPc' = [afPc EXCEPT ![g] = IF afPc[g] = "found" THEN "returned" ELSE "error"]
    /\ UNCHANGED << cpVars, mjVars, msVars, envVars, dfVars, rmVars, rvVars, afConfig,
                    afSum, clientCache, afApi, afBuilt >>

AfNext ==
    \/ \E g \in Callers : AfHash(g)
    \/ \E g \in Callers : AfLock(g)
    \/ \E g \in Callers : AfLookup(g)
    \/ \E g \in Callers : AfReturn(g)

(***************************************************************************)
(* mirror: doRemove on the error channel of clnt.Remove                    *)
(***************************************************************************)
\* What clnt.Remove can send on its error channel: nil, a
\* PathInsufficientPermission error, or an error of another type.
RemoveErrs == {"none", "permission", "fatal", "timeout"}

\* The error channels of clnt.Remove: up to MaxRemoveErrs values, then closed.
ErrorChs == UNION { [1 .. n -> RemoveErrs] : n \in 0 .. MaxRemoveErrs }

\* for pErr := range errorCh, returning at any error, permission errors too.
RECURSIVE rangeErrorChStrict(_)
rangeErrorChStrict(errorCh) ==
    IF errorCh = << >> THEN "none"
    ELSE IF Head(errorCh) = "none" THEN rangeErrorChStrict(Tail(errorCh))
    ELSE Head(errorCh)

\* for pErr := range errorCh: nil and permission errors are passed over, the
\* first other error is returned; "none" when the channel is closed.
RECURSIVE rangeErrorCh(_)
rangeErrorCh(errorCh) ==
    IF errorCh = << >> THEN "none"
    ELSE IF Head(errorCh) \in {"none", "permission"} THEN rangeErrorCh(Tail(errorCh))
    ELSE Head(errorCh)

\* doRemove with the outcome pErr of newClient and the error channel errorCh
\* of clnt.Remove: the error of the result, and whether Remove was called.
doRemoveStream(isFake, pErr, errorCh) ==
    IF isFake THEN [err |-> "none", called |-> FALSE]
    ELSE IF pErr # "none" THEN [err |-> pErr, called |-> FALSE]
    ELSE [err |-> rangeErrorCh(errorCh), called |-> TRUE]

NoRemoveRet == [err |-> "none", called |-> FALSE]

RvInit ==
    /\ rvFake \in BOOLEAN
    /\ rvClientErr \in {"none", "noclient"}
    /\ rvErrorCh \in ErrorChs
    /\ rvPc = "call"
    /\ rvRet = NoRemoveRet

\* The variables of doRemove in a specification that does not call it.
RvUnused ==
    /\ rvFake = FALSE
    /\ rvClientErr = "none"
    /\ rvErrorCh = << >>
    /\ rvPc = "unused"
    /\ rvRet = NoRemoveRet

\* The variables of the calls a specification does not make.
CallsUnused == RvUnused /\ AfUnused

\* sURLs = mj.doRemove(sURLs)
RvCall ==
    /\ rvPc = "call"
    /\ rvRet' = doRemoveStream(rvFake, rvClientErr, rvErrorCh)
    /\ rvPc' = "returned"
    /\ UNCHANGED << cpVars, mjVars, msVars, envVars, dfVars, rmVars, rvFake, rvClientErr,
                    rvErrorCh, afVars >>

RvNext == RvCall

(***************************************************************************)
(* Specifications                                                          *)
(***************************************************************************)
\* cp, with and without a session, over several runs of the process.
InitCp ==
    /\ CpInit /\ MjUnused /\ MsUnused /\ EnvUnused /\ DfUnused /\ RunUnused
    /\ CallsUnused

SpecCp == InitCp /\ [][CpNext]_vars

\* cp --preserve over sources of which one has unreadable file attributes.
InitCpPreserve ==
    /\ CpInitWith(TRUE) /\ MjUnused /\ MsUnused /\ EnvUnused /\ DfUnused /\ RunUnused
    /\ CallsUnused

SpecCpPreserve == InitCpPreserve /\ [][CpNext]_vars

\* One mirror job: batch scan, watch loop, workers and aggregator.
InitMirror ==
    /\ MjInit /\ CpUnused /\ MsUnused /\ EnvUnused /\ DfUnused /\ RunUnused
    /\ CallsUnused

SpecMirror == InitMirror /\ [][MjNext]_vars

\* A mirror job in batch mode: no watch loop, no multi-site mode, so that
\* stopCh is never closed.
InitBatch ==
    /\ MjInit
    /\ ~mjF.isWatch /\ ~mjF.multiMaster
    /\ CpUnused /\ MsUnused /\ EnvUnused /\ DfUnused /\ RunUnused /\ CallsUnused

\* The steps of startMirror, of the workers, of mirror() and of
\* monitorMirrorStatus in such a job.
MjBatchNext ==
    \/ MjScanRecv
    \/ MjScanRead
    \/ MjScanQueue
    \/ MjScanDrained
    \/ MjScanDone
    \/ \E w \in Workers : MjWorkerTake(w)
    \/ \E w \in Workers : MjWorkerExit(w)
    \/ \E w \in Workers : MjWorkerRun(w)
    \/ MjCloseStatus
    \/ \E w \in Workers : MjAggRecvWorker(w)
    \/ MjAggRecvScan
    \/ MjAggClosed

SpecBatch == InitBatch /\ [][MjBatchNext]_vars

\* The same with every thread of the job scheduled: a step that stays possible
\* is eventually taken, and a transfer or removal that has started ends.
SpecBatchLive == SpecBatch /\ WF_vars(MjBatchNext)

\* Two multi-site jobs facing each other, a seeded object and one user write.
InitMulti ==
    /\ MsInit /\ CpUnused /\ MjUnused /\ EnvUnused /\ DfUnused /\ RunUnused
    /\ CallsUnused

SpecMulti == InitMulti /\ [][MsNext]_vars

\* A cp or a mirror job: the two commands that share the parallel manager and
\* the shape of the aggregator loop.
InitCpOrMirror ==
    /\ (CpInit /\ MjOff) \/ (MjInit /\ CpUnused)
    /\ MsUnused /\ EnvUnused /\ DfUnused /\ RunUnused /\ CallsUnused

CpOrMirrorNext == CpNext \/ MjNext

SpecCpOrMirror == InitCpOrMirror /\ [][CpOrMirrorNext]_vars

\* parseEnvURL applied to the URLs of EnvParts, and its test.
InitEnv ==
    /\ EnvInit /\ CpUnused /\ MjUnused /\ MsUnused /\ DfUnused /\ RunUnused
    /\ CallsUnused

SpecEnv == InitEnv /\ [][EnvNext]_vars

\* The batch scan of a mirror of one source onto one target, every intent
\* succeeding, and the same command once more.
InitDiff ==
    /\ DfInit /\ CpUnused /\ MjUnused /\ MsUnused /\ EnvUnused /\ RunUnused
    /\ CallsUnused

SpecDiff == InitDiff /\ [][DfNext]_vars

\* mainMirror: the calls of runMirror, each with its bucket steps and its job.
InitRun ==
    /\ RunInit /\ CpUnused /\ MjUnused /\ MsUnused /\ EnvUnused /\ DfUnused
    /\ CallsUnused

SpecRun == InitRun /\ [][RmNext]_vars

\* The same with the loop of mainMirror going on: a sleep ends and runMirror is
\* called whenever mainMirror is at that point.
SpecRunLive == SpecRun /\ WF_vars(RmSleep) /\ WF_vars(RmCall)

\* doRemove called once, for every outcome of newClient and of clnt.Remove.
InitRemove ==
    /\ RvInit /\ AfUnused
    /\ CpUnused /\ MjUnused /\ MsUnused /\ EnvUnused /\ DfUnused /\ RunUnused

SpecRemove == InitRemove /\ [][RvNext]_vars

\* Two concurrent calls of the admin client factory, for every pair of
\* configurations.
InitAdmin ==
    /\ AfInit /\ RvUnused
    /\ CpUnused /\ MjUnused /\ MsUnused /\ EnvUnused /\ DfUnused /\ RunUnused

SpecAdmin == InitAdmin /\ [][AfNext]_vars

(***************************************************************************)
(* Claims about the cp session                                             *)
(***************************************************************************)
\* The URLs of the lines of a log.
RECURSIVE LogURLs(_)
LogURLs(log) == IF log = << >> THEN {} ELSE {Head(log)[2]} \cup LogURLs(Tail(log))

\* C1: in a resumed run of a session of N logged intents, K of which completed
\* successfully in the earlier runs, doCopy is invoked for at most N-K intents
\* and for none of the K intents that completed.
C1_ResumeCopiesAtMostRest ==
    resumed =>
        /\ Cardinality(realThisRun) <= Len(logAtExec) - Cardinality(doneEarlier)
        /\ realThisRun \cap doneEarlier = {}

\* C2: every intent a resumed run skips as already copied was really copied
\* with success in an earlier run, and when a resumed run returns without an
\* error every logged intent has been really copied.
C2_SkippedWereCopied ==
    /\ fakeThisRun \subseteq uploadedOK
    /\ (resumed /\ cpExit = "returned" /\ ~retErr) => LogURLs(logAtExec) \subseteq uploadedOK

\* The source URLs of the intents of a scan that carry no error.
OkURLs(stream) == { stream[i].url : i \in { j \in 1 .. Len(stream) : stream[j].err = "none" } }

RECURSIVE LogBytes(_)
LogBytes(log) == IF log = << >> THEN 0 ELSE Head(log)[3] + LogBytes(Tail(log))

\* C7: an error-only intent does not stop the scan of cp: with a session every
\* later intent is logged, without a session every later intent is handed to
\* the dispatcher.
C7_ScanGoesOnAfterError ==
    /\ (useSession /\ cpPc = "exec") => OkURLs(cpStream) = LogURLs(logAtExec)
    /\ (~useSession /\ feedSt = "done") =>
          \A i \in 1 .. Len(cpStream) : cpStream[i].err = "none" => i < scanPos

\* The log reader, the dispatcher or a worker of this run has taken a step.
ExecBegun ==
    \/ readPos > 1
    \/ feedSt # "off"
    \/ dispSt # "off"
    \/ cpURLsCh # << >>
    \/ queueCh # << >>
    \/ \E w \in Workers : workers[w].st # "idle"

\* C8: in a cp session nothing is read back from the log, queued or copied
\* before the scan has ended; by then the log holds every intent of the scan,
\* the header totals are saved, and the log is not changed afterwards.
C8_LogCompleteBeforeExec ==
    (useSession /\ ExecBegun) =>
        /\ cpPc # "scan"
        /\ LogURLs(logAtExec) = OkURLs(cpStream)
        /\ Len(logAtExec) = Cardinality(OkURLs(cpStream))
        /\ sessOnDisk =>
              /\ sessLog = logAtExec
              /\ hdr.TotalObjects = Len(sessLog)
              /\ hdr.TotalBytes = LogBytes(sessLog)

C8_Witness ==
    /\ useSession
    /\ Len(cpStream) > MaxIntents
    /\ \E w \in Workers : workers[w].st = "run" /\ ~workers[w].fake
    /\ Len(logAtExec) = MaxIntents

\* C9: a cp run with a session that returns from doCopySession has consumed
\* every result and leaves no session; a run ended by a non-ignorable error or
\* by an interrupt during execution leaves the session, and the next run with
\* the same arguments loads it and, when a marker is stored, replays its log.
C9_SessionAtEnd ==
    /\ [](useSession =>
            /\ (cpPc = "done" =>
                  /\ ~sessOnDisk
                  /\ statusClosed
                  /\ consumed = Len(logAtExec)
                  /\ \A w \in Workers : workers[w].st = "exit")
            /\ (cpPc = "dead" /\ cpExit \in {"fatal", "trapExec"} =>
                  /\ sessOnDisk
                  /\ sessLog = logAtExec
                  /\ sessLog # << >>))
    /\ [][(useSession /\ cpPc = "dead" /\ cpExit \in {"fatal", "trapExec"}
              /\ cpPc' # "dead") =>
            /\ sessOnDisk'
            /\ hdr' = hdr
            /\ HasData(hdr) => (cpPc' = "exec" /\ resumed' /\ logAtExec' = sessLog
                                  /\ sessLog' = sessLog)]_vars

C9_Witness ==
    /\ useSession
    /\ resumed
    /\ cpPc = "done"
    /\ cpExit = "returned"
    /\ fakeThisRun # {}
    /\ realThisRun # {}

\* C10: an interrupt during the scan leaves no session, and the next run with
\* the same arguments starts a fresh scan with an empty log.
C10_ScanInterruptDropsSession ==
    /\ []((cpPc = "dead" /\ cpExit = "trapScan") => (~sessOnDisk /\ sessLog = << >>))
    /\ [][(cpPc = "dead" /\ cpExit = "trapScan" /\ cpPc' # "dead") =>
            (cpPc' = "scan" /\ ~resumed' /\ sessLog' = << >> /\ scanPos' = 1
               /\ hdr' = EmptyHeader)]_vars

C10_Witness ==
    /\ runNo = 2
    /\ cpPc = "scan"
    /\ cpExit = "trapScan"
    /\ Len(sessLog) > 1


(***************************************************************************)
(* Claims about one mirror job                                             *)
(***************************************************************************)
\* The workers that are inside doMirror or doRemove.
MjRunning == {w \in Workers : mjWorkers[w].st = "run"}

\* C4: with a pool of NumWorkers workers, at most NumWorkers calls of doMirror
\* or doRemove are in progress at any time, the calls of the pool and the call
\* of the watch thread taken together.
C4_AtMostPoolSizeRunning ==
    Cardinality(MjRunning) + (IF mjWatchSt = "exec" THEN 1 ELSE 0) <= NumWorkers

\* The older-than filter, the newer-than filter or an exclude pattern of job f
\* rejects the object of intent it.
Rejected(f, it) ==
    \/ matchExcludeOptions(f.exclude, it.path)
    \/ (f.olderThan # 0 /\ isOlder(it.age, f.olderThan))
    \/ (f.newerThan # 0 /\ isNewer(it.age, f.newerThan))

\* C5: in batch mode and in watch mode alike, an object that the older-than
\* filter, the newer-than filter or an exclude pattern rejects is never added
\* to the totals and never uploaded.
C5_RejectedNeverCountedNorSent ==
    \A it \in BagToSet(mjCounted) \cup BagToSet(mjUploads) :
        it.kind = "copy" => ~Rejected(mjF, it)

\* The error-only intent of the scan and the number of results that carry it.
ScanError == MirrorErrorURLs("batch")

ErrResults == CopiesIn(ScanError, mjResults)

ErrInStream == \E i \in 1 .. Len(mjStream) : mjStream[i] = ScanError

\* No transfer, count or queue entry for an intent that carries an error, and
\* doMirror and doCopy hand such an intent back untouched.
ErrorNeverExecuted ==
    /\ \A it \in BagToSet(mjUploads) \cup BagToSet(mjRemoves) \cup BagToSet(mjCounted) :
            it.err = "none"
    /\ \A i \in 1 .. Len(mjQueue) : mjQueue[i].err = "none"
    /\ \A w \in MjRunning : mjWorkers[w].it.err = "none"
    /\ mjStatus.counts = BagCardinality(mjCounted)
    /\ \A outcome \in ErrKinds :
            /\ doMirror(mjF, ScanError, outcome) = ScanError
            /\ ~doMirrorUploads(mjF, ScanError)
    /\ \A e \in ErrKinds \ {"none"}, outcome \in ErrKinds :
            doCopy([NoTask EXCEPT !.err = e], outcome) = [NoTask EXCEPT !.err = e]

UserTransfers(s) == SelectSeq(msSent[s], LAMBDA it : it.path = UserPath)

\* C3: after the single write of the user on A the job of A transfers the
\* object to B, the job of B never transfers it back to A, and so the write
\* causes one transfer at most.
C3_NoTransferBack ==
    /\ UserTransfers("B") = << >>
    /\ Len(UserTransfers("A")) <= 1


(***************************************************************************)
(* Claims about exit status, channels and the aggregators                  *)
(***************************************************************************)
\* C19: a run of cp that an interrupt signal has ended, during the scan or
\* during the execution, with or without a session, exits with a status that
\* is not zero.
C19_InterruptExitsNonZero ==
    (trapped /\ cpPc \in {"dead", "done"}) => exitCode # 0


\* The results with an error that is not ignorable the aggregator has received.
Unrecoverable == {r \in BagToSet(mjResults) : r.err # "none" /\ ~isErrIgnored(r.err)}

\* C13: in a multi-site job the aggregator has closed the stop channel and left
\* its loop exactly when it has received a result with an error that is not
\* ignorable, and the job then returns with the error status; no other job
\* ever closes the stop channel.
C13_AbortOnlyOnUnrecoverable ==
    /\ mjStopClosed => (mjF.multiMaster /\ Unrecoverable # {})
    /\ (mjF.multiMaster /\ Unrecoverable # {}) => (mjStopClosed /\ mjAggSt = "done")
    /\ mjStopClosed => errDuringMirror


\* C14: once the stop channel is closed the watch loop takes no further event
\* from the watcher, and it has returned when the job can take no further
\* step, whatever it was doing when the channel was closed.
C14_StopEndsWatch ==
    /\ [][mjStopClosed => Len(mjEvents') >= Len(mjEvents)]_vars
    /\ []((mjStopClosed /\ ~ENABLED MjNext) => mjWatchSt \in {"off", "done"})


\* An intent that has been added to the totals: every copy, and a removal of
\* the batch scan (watchMirror reads the totals for a removal, adds nothing).
IsCounted(it) == it.kind = "copy" \/ (it.kind = "remove" /\ it.org = "batch")

\* The counted intents that hold their TotalCount, with the place each is at:
\* in the hands of the scan or of the watch thread, in the queue, at a worker,
\* or received by the aggregator.
CountedNow ==
    {[place |-> "scan", idx |-> 0, it |-> mjScanItem] :
        x \in IF mjScanSt = "queue" THEN {0} ELSE {}}
    \cup {[place |-> "queue", idx |-> i, it |-> mjQueue[i]] : i \in 1 .. Len(mjQueue)}
    \cup {[place |-> "worker", idx |-> w, it |-> mjWorkers[w].it] :
            w \in {v \in Workers : mjWorkers[v].st \in {"run", "send"}}}
    \cup {[place |-> "watch", idx |-> 0, it |-> mjWatchItem] :
            x \in IF mjWatchSt \in {"exec", "send"} /\ IsCounted(mjWatchItem)
                  THEN {0} ELSE {}}
    \cup UNION {{[place |-> "result", idx |-> i, it |-> r] :
                    i \in 1 .. CopiesIn(r, mjResults)} :
                r \in {q \in BagToSet(mjResults) : IsCounted(q)}}

\* C20: the totals are incremented and read in one atomic step, so no two
\* counted intents carry the same TotalCount, and none carries a TotalCount
\* above the number of intents counted so far.
C20_TotalCountUnique ==
    /\ \A a, b \in CountedNow : a.it.cnt = b.it.cnt => a = b
    /\ \A a \in CountedNow : a.it.cnt \in 1 .. mjStatus.counts


\* C11: the work queue is closed once, by the scan thread, which sends nothing
\* after it; the result channel is closed once, after every worker has left
\* and the scan and the watch thread have returned, so that nobody sends on
\* a closed channel; and a job that can take no further step has closed both.
C11_ChannelsClosedOnce ==
    /\ [][(mjScanSt = "select" /\ mjScanSt' = "wait") => ~mjQueueClosed]_vars
    /\ [](mjQueueClosed => mjScanSt \in {"wait", "done"})
    /\ [](mjStatusClosed =>
            /\ \A w \in Workers : mjWorkers[w].st = "exit"
            /\ mjScanSt = "done"
            /\ mjWatchSt \in {"off", "done"})
    /\ []((~ENABLED MjNext) => (mjQueueClosed /\ mjStatusClosed))


\* C12: when cp has returned, its exit status is the error status exactly when
\* the aggregator has received a result whose error is not ignorable; a
\* result with an ignorable error never turns it to error.
C12_IgnorableKeepsExitStatus ==
    cpPc = "done" => (exitCode # 0 <=> \E e \in errsSeen : ~isErrIgnored(e))


(***************************************************************************)
(* Claims about the watch loop                                             *)
(***************************************************************************)
\* The error-only result of watchMirror and how often the aggregator got it.
WatchError == MirrorErrorURLs("watch")

WatchErrResults == CopiesIn(WatchError, mjResults)

\* A result that makes monitorMirrorStatus set errDuringMirror.
FailingResults ==
    {r \in BagToSet(mjResults) :
        r.err # "none" /\ (r.kind = "copy" => ~isErrIgnored(r.err))}

\* A 'not supported' watch error ends the loop, reports nothing and leaves the
\* status of the job to the other results.
NotSupportedIsSilent ==
    mjWatchErr = "notImplemented" =>
        /\ mjWatchSt = "done"
        /\ WatchErrResults = 0
        /\ errDuringMirror => FailingResults # {}

WatchReceives == Len(mjHandled') = Len(mjHandled) + 1

ReceivedEvent == mjHandled'[Len(mjHandled')]

\* The step leaves the totals, the target, the transfers, the removals, the
\* results, the Stat calls and the watch loop as they were.
NothingDone ==
    UNCHANGED << mjStats, mjStatus, mjCounted, mjUploads, mjRemoves, mjResults,
                 mjTarget, mjWatchSt, mjWatchItem >>

\* A removal is due for remove event ev under the flags f.
RemoveWanted(f, ev) ==
    /\ ~matchExcludeOptions(f.exclude, ev.path)
    /\ ~uaContains(ev.ua, uaMirrorAppName)
    /\ (f.isRemove \/ f.multiMaster)

\* The remove event the target sends for a removal of doRemove.
RemovalEvent(it) == WatchEvent("remove", it.path, 0, "", doRemoveUserAgent)

C17_MarkedEventDropped ==
    [][(WatchReceives /\ ReceivedEvent.type \in {"create", "retention"}
            /\ ReceivedEvent.marker # "") => NothingDone]_vars

\* A multi-site job has received a marked event, and its watch loop is back
\* at the select with nothing counted.
C17_Witness ==
    /\ mjF.multiMaster
    /\ mjHandled # << >>
    /\ mjHandled[1].marker # ""
    /\ mjWatchSt = "select"
    /\ mjStats = 0
    /\ \A it \in BagToSet(mjCounted) : it.org = "batch"

\* C18: an event, create or remove, for a path that an exclude pattern matches
\* leads to nothing: no Stat of the target, no change of the totals, no
\* transfer, no removal and no result.
C18_ExcludedEventIgnored ==
    [][(WatchReceives /\ matchExcludeOptions(mjF.exclude, ReceivedEvent.path)) =>
            NothingDone]_vars

\* A job with an exclude pattern and removal on has received a remove event
\* for an excluded path that is present on no side it would touch.
C18_Witness ==
    /\ mjF.isRemove
    /\ mjHandled # << >>
    /\ matchExcludeOptions(mjF.exclude, mjHandled[1].path)
    /\ mjHandled[1].type = "remove"
    /\ mjWatchSt = "select"
    /\ mjRemoves = EmptyBag


(***************************************************************************)
(* Claims about removals and about the decision for a create event         *)
(***************************************************************************)
\* The removal intents that are queued, held by a worker or by the scan thread
\* on its way to the queue.
RemovalsUnderWay ==
    {mjQueue[i] : i \in {j \in 1 .. Len(mjQueue) : mjQueue[j].kind = "remove"}}
    \cup {mjWorkers[w].it : w \in {v \in Workers : mjWorkers[v].it.kind = "remove"}}
    \cup (IF mjScanSt = "queue" /\ mjScanItem.kind = "remove" THEN {mjScanItem} ELSE {})

\* C25: with removal and multi-site mode both off nothing is ever removed from
\* the target, by the scan or by a watch event; and a removal intent of the
\* scan is queued and executed only when removal is on, in multi-site mode too.
C25_NoRemovalUnlessEnabled ==
    /\ (~mjF.isRemove /\ ~mjF.multiMaster) => mjRemoves = EmptyBag
    /\ ~mjF.isRemove => RemovalsUnderWay = {}
    /\ ~mjF.isRemove => \A it \in BagToSet(mjRemoves) : it.org # "batch"

\* The scan of a multi-site job without --remove has read a removal intent,
\* counted it and gone on without queueing it, and has ended.
C25_Witness ==
    /\ mjF.multiMaster /\ ~mjF.isRemove
    /\ \E i \in 1 .. Len(mjStream) : mjStream[i].kind = "remove"
    /\ \E it \in BagToSet(mjCounted) : it.kind = "remove"
    /\ mjScanSt = "done"
    /\ mjRemoves = EmptyBag

\* The step hands the received create-class event to doMirror: the event is
\* added to the totals and watchMirror goes on to read the count back.
Transferred ==
    /\ mjWatchSt' = "counted"
    /\ mjWatchItem' = watchCreateURLs(ReceivedEvent)
    /\ mjStatus' = StatusAdd(mjStatus, watchCreateURLs(ReceivedEvent))

\* The step skips the received event: nothing is counted, nothing transferred.
Skipped == UNCHANGED << mjStatus, mjCounted, mjWatchSt, mjWatchItem, mjUploads >>

\* The received event is a create-class event that is neither excluded nor
\* marked.
CreatePassesChecks ==
    /\ WatchReceives
    /\ ReceivedEvent.type \in {"create", "retention"}
    /\ ~matchExcludeOptions(mjF.exclude, ReceivedEvent.path)
    /\ ReceivedEvent.marker = ""

\* The received event is a retention change of an empty object.
EmptyRetention == ReceivedEvent.size = 0 /\ ReceivedEvent.type = "retention"

\* C28: a create-class event that passes the checks and is not a retention
\* change of an empty object is transferred without a Stat of the target when
\* overwrite or multi-site mode is on, and otherwise exactly when the target
\* object does not exist.
C28_CreateEventDecision ==
    [][(CreatePassesChecks /\ ~EmptyRetention) =>
         IF mjF.isOverwrite \/ mjF.multiMaster
         THEN Transferred /\ mjStats' = mjStats
         ELSE IF ReceivedEvent.path \in mjTarget THEN Skipped ELSE Transferred]_vars

C30_MessageOnlyOnSuccess ==
    /\ \A m \in BagToSet(mjMsgs) : m.msg = "rm" => m.of.err = "none"
    /\ \A r \in BagToSet(mjResults) :
         (r.kind = "remove" /\ r.err # "none") =>
             [msg |-> "error", of |-> r] \in BagToSet(mjMsgs)


(***************************************************************************)
(* Claims about parseEnvURL                                                *)
(***************************************************************************)
\* The URL written from p has scheme http or https, path empty or "/" and no
\* query.
EnvValid(p) ==
    /\ p.scheme \in {"http", "https"}
    /\ p.path \in {<< >>, << "/" >>}
    /\ p.query = ""

IntentsFor(kind, p) ==
    Cardinality({i \in 1 .. Len(dfIntents) :
                    dfIntents[i].kind = kind /\ dfIntents[i].path = p})

\* Path p is on both sides with another size or another time.
Differs(p) ==
    /\ p \in DOMAIN dfSrc /\ p \in DOMAIN dfTgt
    /\ dfSrc[p].size # dfTgt[p].size \/ dfSrc[p].age # dfTgt[p].age

Calls(op, b) == {i \in 1 .. Len(rmLog) : rmLog[i].op = op /\ rmLog[i].b = b}

\* The calls that create or configure a bucket of the target.
BucketOps == {"MakeBucket", "SetObjectLockConfig", "copyBucketPolicies"}

\* The differences the loop of runMirror has handled in this call.
Handled == {rmDiffs[i] : i \in 1 .. (IF rmPos - 1 <= Len(rmDiffs) THEN rmPos - 1 ELSE 0)}

\* Bucket b, only at the source, has been handled as the claim says.
CreatedInOrder(b) ==
    /\ Cardinality(Calls("MakeBucket", b)) = 1
    /\ \A m \in Calls("MakeBucket", b) :
         /\ rmLog[m].withLock = (rmSrc[b] # "none")
         /\ IF rmLog[m].ok
            THEN /\ Cardinality(Calls("SetObjectLockConfig", b)) =
                       (IF rmSrc[b] = "rule" THEN 1 ELSE 0)
                 /\ Cardinality(Calls("copyBucketPolicies", b)) = 1
                 /\ \A s \in Calls("SetObjectLockConfig", b) : m < s
                 /\ \A c \in Calls("copyBucketPolicies", b) :
                      /\ m < c
                      /\ \A s \in Calls("SetObjectLockConfig", b) : s < c
            ELSE /\ Calls("SetObjectLockConfig", b) = {}
                 /\ Calls("copyBucketPolicies", b) = {}

\* C22: with both URLs namespace roots, each bucket only at the source gets
\* MakeBucket (with object lock when the source has a lock configuration),
\* then SetObjectLockConfig, then copyBucketPolicies; after a failed
\* MakeBucket the two other steps of that bucket are skipped; a bucket only at
\* the target is never touched; and every bucket step comes before the first
\* transfer of an object.
C22_BucketsBeforeObjects ==
    /\ [](rmF.mirrorAllBuckets =>
            /\ \A d \in Handled : d.diff = "first" => CreatedInOrder(d.bucket)
            /\ \A i \in 1 .. Len(rmLog) :
                 rmLog[i].op \in BucketOps => rmLog[i].b \in DOMAIN rmSrc
            /\ \A i, j \in 1 .. Len(rmLog) :
                 (rmLog[i].op = "transfer" /\ rmLog[j].op \in BucketOps) => j < i)
    /\ [][rmF.mirrorAllBuckets =>
            \A b \in DOMAIN rmTgt \ DOMAIN rmSrc :
               b \in DOMAIN rmTgt' /\ rmTgt'[b] = rmTgt[b]]_vars

\* Bucket 1 has been made with object lock, configured and given its policies,
\* MakeBucket of bucket 2 has failed, bucket 3 is only at the target, and the
\* job has transferred the objects of bucket 1.
C22_Witness ==
    /\ rmF.mirrorAllBuckets
    /\ rmSrc[1] = "rule"
    /\ 3 \in DOMAIN rmTgt /\ 2 \notin DOMAIN rmTgt
    /\ \E m \in Calls("MakeBucket", 1) : rmLog[m].ok /\ rmLog[m].withLock
    /\ Calls("SetObjectLockConfig", 1) # {}
    /\ Calls("copyBucketPolicies", 1) # {}
    /\ \E m \in Calls("MakeBucket", 2) : ~rmLog[m].ok
    /\ Calls("transfer", 1) # {}

(***************************************************************************)
(* C26                                                                     *)
(***************************************************************************)
\* The results monitorMirrorStatus has received for a queued intent.
ResultsFor(it) ==
    { r \in BagToSet(mjResults) :
        r.org = "batch" /\ r.kind = it.kind /\ r.path = it.path }

\* Every intent sent on mj.queueCh has been run and its result received once.
AllEnqueuedConsumed ==
    /\ mjQueue = << >>
    /\ \A w \in Workers : mjWorkers[w].st \in {"idle", "exit"}
    /\ \A it \in mjEnqueued :
         /\ Cardinality(ResultsFor(it)) = 1
         /\ \A r \in ResultsFor(it) : CopiesIn(r, mjResults) = 1

\* Every closure cp has queued has been run and its result received.
AllQueuedConsumed ==
    /\ queueCh = << >>
    /\ \A w \in Workers : workers[w].st \in {"idle", "exit"}
    /\ consumed = cpQueued

\* C26: in mirror without multi-site mode and in cp without a session, the
\* aggregator stays in its loop when it receives a result, with or without an
\* error; the job is never stuck before its end; and at its end every intent
\* that was enqueued has been executed and its result consumed.
C26_ErrorDoesNotStopJob ==
    /\ [][~mjF.multiMaster /\ (\E w \in Workers : MjAggRecvWorker(w))
            => mjAggSt' = "loop"]_vars
    /\ [][~useSession /\ (\E w \in Workers : AggRecv(w)) => cpPc' = "exec"]_vars
    /\ [](~mjF.multiMaster /\ mjAggSt # "done" => ENABLED MjNext)
    /\ [](~useSession /\ cpPc = "exec" => ENABLED CpNext)
    /\ [](~mjF.multiMaster /\ mjAggSt = "done" => AllEnqueuedConsumed)
    /\ [](~useSession /\ cpPc \in {"returned", "done"} => AllQueuedConsumed)

\* A finished mirror job without multi-site mode in which one queued intent
\* ended in an error and the result of another one was received as well.
C26_Witness ==
    /\ ~mjF.multiMaster
    /\ mjAggSt = "done"
    /\ \E it1, it2 \in mjEnqueued :
         /\ it1 # it2
         /\ \E r \in ResultsFor(it1) : r.err # "none"
         /\ ResultsFor(it2) # {}

(***************************************************************************)
(* C31                                                                     *)
(***************************************************************************)
\* What the remove stream yielded in the call: nothing when clnt.Remove was
\* not called.
Yielded == IF rvRet.called THEN rvErrorCh ELSE << >>

\* The errors among the values the stream yielded that are not
\* permission-denied errors, in order.
OtherErrors == SelectSeq(Yielded, LAMBDA e : e \notin {"none", "permission"})

\* doRemove as stated: error-free exactly when the stream yields no error
\* other than permission-denied, the first other error returned, and no call
\* of remove in fake mode.
RemoveAsStated ==
    /\ rvRet.err = "none" <=> OtherErrors = << >>
    /\ OtherErrors # << >> => rvRet.err = Head(OtherErrors)
    /\ rvFake => rvRet.err = "none" /\ ~rvRet.called

\* C31 as stated: for every call of doRemove, the result is error-free if and
\* only if the remove stream yields no error but permission-denied ones.
C31_AsStated == rvPc = "returned" => RemoveAsStated

\* C31: when the client of the target can be built or the job is fake, doRemove
\* returns an error-free result if and only if every error the remove stream
\* yields is a permission-denied error, the first error of another kind is the
\* result's error, and in fake mode remove is not called; when newClient fails
\* outside fake mode, its error is the result's error and remove is not called.
C31_RemoveResult ==
    rvPc = "returned" =>
      IF rvFake \/ rvClientErr = "none"
      THEN RemoveAsStated /\ (rvRet.called <=> ~rvFake)
      ELSE rvRet.err = rvClientErr /\ ~rvRet.called

\* doRemove has returned the second error of a stream whose first one was a
\* permission-denied error.
C31_Witness ==
    /\ rvPc = "returned"
    /\ ~rvFake
    /\ rvRet.called
    /\ Len(rvErrorCh) = 3
    /\ rvErrorCh[1] = "permission"
    /\ rvErrorCh[2] = "timeout"
    /\ rvErrorCh[3] = "fatal"
    /\ rvRet.err = "timeout"

(***************************************************************************)
(* C32                                                                     *)
(***************************************************************************)
\* The intents of a stream that carry no error, marshalled, in order.
RECURSIVE Marshalled(_)
Marshalled(stream) ==
    IF stream = << >> THEN << >>
    ELSE IF Head(stream).err # "none" THEN Marshalled(Tail(stream))
    ELSE << jsonMarshal(Head(stream)) >> \o Marshalled(Tail(stream))

\* C32: after the scan phase of a cp session the header's TotalObjects is the
\* number of intents written to the intent log and TotalBytes the sum of their
\* source sizes; the log of a run that scanned holds the error-free intents of
\* the stream and no other, and a scan step on an error-only intent changes
\* neither the log nor the totals.
C32_HeaderTotals ==
    /\ [](useSession /\ cpPc \in {"exec", "returned"} =>
            /\ hdr.TotalObjects = Len(logAtExec)
            /\ hdr.TotalBytes = LogBytes(logAtExec)
            /\ ~resumed => logAtExec = Marshalled(cpStream))
    /\ [][ScanStep /\ cpStream[scanPos].err # "none" =>
            UNCHANGED << sessLog, totals >>]_vars

\* A session whose scan has passed over an error-only intent and logged the
\* other intents is in its execution phase.
C32_Witness ==
    /\ useSession
    /\ ~resumed
    /\ cpPc = "exec"
    /\ Len(logAtExec) >= 2
    /\ hdr.TotalObjects = Len(logAtExec)
    /\ \E i \in 1 .. Len(cpStream) : cpStream[i].err # "none"

(***************************************************************************)
(* C33                                                                     *)
(***************************************************************************)
\* The job is a batch job: no watch, no multi-site mode.
BatchOnly == ~mjF.isWatch /\ ~mjF.multiMaster

\* C33: in mirror batch mode without watch and without multi-site mode, when
\* every thread that can take a step eventually takes one and every transfer
\* and removal ends, monitorMirrorStatus leaves its loop and mirror() returns;
\* when it has returned, every intent that was enqueued has exactly one result
\* and the aggregator has received it, and no thread of the job can take a step.
C33_BatchTerminates ==
    /\ BatchOnly ~> (mjAggSt = "done")
    /\ [](BatchOnly /\ mjAggSt = "done" =>
            /\ AllEnqueuedConsumed
            /\ mjStatusClosed /\ mjQueueClosed /\ mjScanSt = "done"
            /\ BagCardinality(mjResults) >= Cardinality(mjEnqueued)
            /\ ~ENABLED MjNext)

\* A batch job has returned after three queued intents, one of them a removal.
C33_Witness ==
    /\ BatchOnly
    /\ mjAggSt = "done"
    /\ Cardinality(mjEnqueued) = 3
    /\ \E it \in mjEnqueued : it.kind = "remove"
    /\ \A it \in mjEnqueued : ResultsFor(it) # {}

(***************************************************************************)
(* C34                                                                     *)
(***************************************************************************)
\* The position of the intent of source URL u in a log, 0 when it has none.
PosInLog(u, log) ==
    IF \E i \in 1 .. Len(log) : log[i][2] = u
    THEN CHOOSE i \in 1 .. Len(log) : log[i][2] = u
    ELSE 0

\* C34: during a resumed cp session the resume marker never moves back: in
\* the execution phase the position of Header.LastCopied in the intent log is
\* at or after the position of the marker loaded at the start of the run.
C34_MarkerNeverMovesBack ==
    (useSession /\ resumed /\ cpPc \in {"exec", "returned"}) =>
       PosInLog(hdr.LastCopied, logAtExec) >= PosInLog(lastURL, logAtExec)

(***************************************************************************)
(* C35                                                                     *)
(***************************************************************************)
\* C35: in cp every intent the dispatcher has read ends as exactly one result
\* on the result channel: when doCopySession has returned, the aggregator has
\* received as many results as the dispatcher has read intents, and a run in
\* which the file attributes of an intent could not be read has set the error
\* the exit status is made from.
C35_EveryReadIntentHasResult ==
    cpPc \in {"returned", "done"} =>
      /\ consumed = cpRead
      /\ cpRead # cpQueued => retErr

(***************************************************************************)
(* C36                                                                     *)
(***************************************************************************)
\* Every thread of the job has ended and statusCh is closed.
JobWoundDown ==
    /\ mjScanSt = "done"
    /\ mjWatchSt \in {"off", "done"}
    /\ \A w \in Workers : mjWorkers[w].st = "exit"
    /\ mjStatusClosed

\* C36: after a multi-site abort the scan thread, the watch thread and every
\* worker end and statusCh is closed: a state of the aborted job in which no
\* thread can take a step any more is a state in which all of them have ended,
\* none being blocked on a send to statusCh or to the queue.
C36_AbortedJobWindsDown ==
    (mjF.multiMaster /\ mjStopClosed /\ mjAggSt = "done" /\ ~ENABLED MjNext)
       => JobWoundDown

(***************************************************************************)
(* C37                                                                     *)
(***************************************************************************)
\* C37: in multi-site mode every object doMirror writes to the target carries
\* a non-empty replication marker in its target metadata, for an intent of the
\* batch scan and for one built from a watch event.
C37_MarkerOnEveryWrite ==
    mjF.multiMaster =>
      \A it \in BagToSet(mjUploads) : doMirror(mjF, it, "none").tmeta # ""

(***************************************************************************)
(* C38                                                                     *)
(***************************************************************************)
\* The calls of runMirror and of its job that change the target.
MutatingOps == {"MakeBucket", "SetObjectLockConfig", "copyBucketPolicies", "transfer"}

\* C38: with --fake a mirror invocation makes no mutating call on the target:
\* no put, no remove, no MakeBucket, no SetObjectLockConfig and no copy of the
\* bucket policies appear among the calls of runMirror.
C38_FakeChangesNothing ==
    rmF.isFake => \A i \in 1 .. Len(rmLog) : rmLog[i].op \notin MutatingOps

OneClientPerKey ==
    \A i, j \in 1 .. Len(afBuilt) : afBuilt[i] = afBuilt[j] => i = j

\* The client a caller got was built with its configuration's host and keys.
OwnClient(g) ==
    /\ afApi[g].host = urlParse(afConfig[g].HostURL).Host
    /\ afApi[g].accessKey = afConfig[g].AccessKey
    /\ afApi[g].secretKey = afConfig[g].SecretKey

\* C40: under any interleaving of concurrent calls the factory builds at most
\* one client per cache key, and the client it returns for a configuration was
\* built with that configuration's host, access key and secret key.
C40_ClientOfItsConfig ==
    /\ OneClientPerKey
    /\ \A g \in Callers : afPc[g] = "returned" => OwnClient(g)

====
